---- MODULE Spec2Model ----
(***************************************************************************)
(* Session layer (providers/AuthProvider.tsx) and the event bus of the     *)
(* client.                                                                 *)
(*                                                                         *)
(* Every asynchronous function is a coroutine: a record with a program     *)
(* counter, suspended at its awaits.  One action is the synchronous code   *)
(* that runs between two suspension points.  A storage operation takes     *)
(* effect on the store at its own instant, outside the JavaScript thread,  *)
(* between the call and the delivery of its completion; a network request  *)
(* is answered at an arbitrary later instant.  The JavaScript thread runs  *)
(* one job at a time: a completion or a user event is delivered only when  *)
(* no continuation of an already settled promise is waiting (the microtask *)
(* queue is drained first); continuations that wait together run in any    *)
(* order.  getItem / setItem / deleteItem settle on expo-secure-store on a  *)
(* native platform, and on AsyncStorage on the web or when the secure      *)
(* store is unavailable or its operation raises; an operation fails when   *)
(* the AsyncStorage operation fails.                                       *)
(***************************************************************************)
EXTENDS Bags, FiniteSets, Integers, Sequences, TLC

\* Number of calls made on the provider in one run (the bootstrap included).
MaxTasks == 2
\* Number of credential operations of the session layer that AsyncStorage serves
\* on a native platform in one run (the secure store was unavailable or raised).
MaxFallbacks == 1
\* Number of registrations made on the bus in one run.
MaxRegs == 3
\* Number of bus calls one callback makes while it runs.
MaxHandlerOps == 1

Null == "null"

ACCESS_KEY == "accessToken"
REFRESH_KEY == "refreshToken"
CredentialKeys == {ACCESS_KEY, REFRESH_KEY}

\* The credentials an earlier run may have left in the store, the access
\* credentials a refresh hands out, and the pair a login or registration hands out.
StoredAccess == "a0"
StoredRefresh == "r0"
AccessVals == {"a1", "a2"}
LoginAccess == "a3"
LoginRefresh == "r3"
\* Status codes of a response that completed.
Statuses == {200, 401, 500}
\* Status codes with which the backend rejects a login or a registration.
RejectStatuses == {400, 401}
\* Callbacks handed to on, and payloads handed to emit ({ noteId } or { noteId: undefined }).
Callbacks == {"h1", "h2", "h3"}
Payloads == {"n1", Null}
\* Number of presses of Delete on the uploads screen in one run.
MaxDeletes == 1
\* Number of calls made on the artifact cache and the summary store in one run.
MaxCacheCalls == 3
\* Notes, the artifacts (card or question lists) a tool screen caches for a note,
\* summary texts, and the status codes of DELETE /api/notes/:id.
NoteIds == {"n1", "n2"}
Artifacts == {<<"k1">>, <<"k1", "k2">>}
Summaries == {"s1"}
DeleteStatuses == {200, 404, 500}
\* Number of getItem / setItem / deleteItem calls made on the credential store in
\* one run, under way together or one after the other, and the strings handed to
\* setItem.
MaxStoreCalls == 3
StoreValues == {"v1", "v2"}
\* Number of loads and generations started on the tool screens in one run, the
\* items a generation response carries ("bad" fails the screen's filter), the
\* lists it carries, and its status codes.
MaxFetches == 2
\* Presses of Upload and of Index on the uploads screen in one run.
MaxIndexings == 2
\* loadNotes calls of the uploads screen under way at once
MaxLoads == 2
\* summary reads of one note issued and not awaited, pending at once
MaxReads == 2
\* Gestures made in one run: a button, a card or a note of a picker pressed, a
\* file picked (a dialog that is answered or left is the end of an await and is
\* not counted).
MaxGestures == 2
\* generateSummary calls in one run
MaxSummaries == 1
LoadStatuses == {200, 500}
SummaryStatuses == {200, 500}
UploadStatuses == {200, 500}
IndexStatuses == {200, 500}

RawLists == {<< >>, <<"bad">>, <<"k1">>, <<"k1", "bad", "k2">>}
GenStatuses == {200, 500}

VARIABLES
    accessTokenMem,   \* in-memory shadow of the access credential
    refreshTokenMem,  \* in-memory shadow of the refresh credential
    refreshInFlight,  \* 0 (null) or the index in tasks of the pending refresh
    user,             \* React state of AuthProvider
    loading,          \* React state of AuthProvider
    mounted,          \* the provider's mount effect has run
    tasks,            \* the coroutines started so far
    listeners,        \* listeners["notes:changed"]: callbacks in registration order
    regs,             \* the callback of every registration made (its unsubscribe closure)
    emitK,            \* forEach: index being visited, 0 when no emit is running
    emitLen,          \* forEach: the length read when the loop began
    payload,          \* the payload of the running emit
    inHandler,        \* a callback invoked by forEach has not returned yet
    hops,             \* bus calls made by the running callback
    snapshot,         \* history: listeners when the last emit was called
    invoked,          \* history: the invocations made by the last emit
    offDuring,        \* history: callbacks passed to off during the last emit
    onDuring,         \* history: callbacks passed to on during the last emit
    called,           \* history: the registrations whose unsubscribe function was called
    nfallbacks,       \* credential operations of the session served by AsyncStorage
    asyncStorage,     \* AsyncStorage: key -> string or Null
    serverNotes,      \* the notes the backend holds
    notes,            \* React state of the uploads screen: the notes listed
    selectedNoteId,   \* React state of the uploads screen
    summaryText,      \* React state of the uploads screen
    indexedNoteIds,   \* React state of the uploads screen
    ntasks,           \* the deleteNote calls started so far
    opened,           \* the uploads screen is mounted
    loads,            \* the loadNotes calls of the uploads screen under way, a bag
    sreads,           \* summary reads issued and not awaited, pending, per note
    stasks,           \* the generateSummary calls started so far
    summaryBusy,      \* React state of the uploads screen
    loadingList,      \* React state of the uploads screen: a load has not ended
    busy,             \* React state of the uploads screen: an upload is under way
    ngestures,        \* gestures made on the uploads screen so far
    ncalls,           \* calls made on the cache and the summary store so far
    published,        \* history: every emit of a deletion, with the cache at that instant
    got,              \* history: the last read of the artifact cache
    lastCall,         \* history: the last call made on the artifact cache
    platform,         \* Platform.OS
    secureStore,      \* expo-secure-store: key -> string or Null
    scalls,           \* the getItem / setItem / deleteItem calls made so far
    itasks,           \* the indexings started on the uploads screen
    indexingNoteId,   \* React state of the uploads screen: the note shown as indexing
    announced,        \* history: every emit of an indexing, with the pointer then
    gens,             \* the loads and generations started on the tool screens
    shown             \* React state of the tool screens: cards / items, per kind

authVars == <<accessTokenMem, refreshTokenMem, refreshInFlight, user,
              loading, mounted, tasks, nfallbacks>>

busVars == <<listeners, regs, emitK, emitLen, payload, inHandler, hops, snapshot,
             invoked, offDuring, onDuring, called>>

notesVars == <<asyncStorage, serverNotes, notes, selectedNoteId, summaryText,
               indexedNoteIds, ntasks, ncalls, published, got, lastCall>>

storeVars == <<platform, secureStore, scalls>>

toolsVars == <<gens, shown>>

screenVars == <<opened, loads, sreads, stasks, summaryBusy, loadingList, busy,
               ngestures>>

indexVars == <<itasks, indexingNoteId, announced>>

vars == <<authVars, busVars, notesVars, storeVars, toolsVars, indexVars, screenVars>>

\* What the session layer, the bus, the notes flows and the credential store each
\* leave alone (the credential store falls back on AsyncStorage).
nonAuthVars == <<busVars, notesVars, storeVars, toolsVars, indexVars, screenVars>>
nonBusVars == <<authVars, notesVars, storeVars, toolsVars, indexVars, screenVars>>
nonNotesVars == <<authVars, busVars, storeVars, toolsVars, indexVars, screenVars>>
nonStoreVars == <<authVars, busVars, serverNotes, notes, selectedNoteId, summaryText,
                  indexedNoteIds, ntasks, ncalls, published, got, lastCall, toolsVars,
                  indexVars, screenVars>>
nonToolsVars == <<authVars, busVars, serverNotes, notes, selectedNoteId, summaryText,
                  indexedNoteIds, ntasks, ncalls, published, storeVars, indexVars,
                  screenVars>>
\* What a credential operation of the session layer leaves alone.
nonCredVars == <<busVars, serverNotes, notes, selectedNoteId, summaryText,
                 indexedNoteIds, ntasks, ncalls, published, got, lastCall, platform,
                 scalls, toolsVars, indexVars, screenVars>>
\* What the uploads screen leaves alone.
nonScreenVars == <<authVars, busVars, ncalls, got, lastCall, storeVars, toolsVars>>
\* The uploads screen stays mounted.
nonMountVars == <<opened, nonScreenVars>>

----------------------------------------------------------------------------
\* res.ok
ResOk(status) == status >= 200 /\ status < 300

\* A coroutine.  kind: which function it runs.  ctx: who called getTokens.
\* at, rt: the pair getTokens returned.  io: the value a storage read produced.
\* wa, wr: the arguments of the running setTokens.  flight: the refresh awaited.
\* nreq, nref: requests issued to the path, refreshAccessToken calls made.
\* st1, st2: status of the first and of the retried response.  newAccess: what
\* the refresh returned.  out, status, ret: how the call ended (the error's
\* name, its status, the parsed body or returned value).  begunIdle, begunAt:
\* whether refreshInFlight was null, and how many refresh requests had been
\* issued, when the call of refreshAccessToken began.  owner: the call that
\* started this refresh.  sent1, sent2: the first and the retried request.
\* signedOut: whether a signOut call was made with nothing to clear.
NoRequest == [path |-> "none", auth |-> Null]

\* The path an authFetch call is made with: apiMe's, or a caller's own.
PathOf(t) == IF t.kind = "authFetch" THEN "/api/other" ELSE "/api/auth/me"

\* The request authFetch sends: its path and its Authorization credential.
Request(t, auth) == [path |-> PathOf(t), auth |-> auth]

\* AsyncStorage serves the operation: the platform is the web, or the secure
\* store is unavailable or raises.
Generic ==
    IF platform = "web" THEN UNCHANGED nfallbacks
    ELSE nfallbacks < MaxFallbacks /\ nfallbacks' = nfallbacks + 1

\* What getItem(key) yields when the first backend of the platform answers.
Stored(key) == IF platform = "web" THEN asyncStorage[key] ELSE secureStore[key]

NewTask(kind, retry) ==
    [kind |-> kind, pc |-> "start", ctx |-> "none", retry |-> retry,
     at |-> Null, rt |-> Null, io |-> Null, wa |-> Null, wr |-> Null,
     u |-> Null, flight |-> 0, nreq |-> 0, nref |-> 0, st1 |-> 0, st2 |-> 0,
     newAccess |-> Null, out |-> "pending", status |-> 0, ret |-> Null,
     begunIdle |-> FALSE, begunAt |-> 0, owner |-> 0,
     sent1 |-> NoRequest, sent2 |-> NoRequest, signedOut |-> FALSE]

IsCall(t) == t.kind # "refreshIIFE"
NumCalls == Cardinality({i \in 1..Len(tasks) : IsCall(tasks[i])})
NumRefreshPosts == Cardinality({i \in 1..Len(tasks) : ~IsCall(tasks[i])})

\* The synchronous part of getTokens: the shadow is consulted first.
getTokens(t, ctx) ==
    IF accessTokenMem = Null
    THEN [t EXCEPT !.pc = "gtA_io", !.ctx = ctx]
    ELSE IF refreshTokenMem = Null
         THEN [t EXCEPT !.pc = "gtR_io", !.ctx = ctx]
         ELSE [t EXCEPT !.pc = "gt_ret", !.ctx = ctx,
                        !.at = accessTokenMem, !.rt = refreshTokenMem]

\* How an authFetch call ends: refreshProfile catches, a direct caller sees it.
EndAuthFetch(t, out, status, ret) ==
    [t EXCEPT !.out = out, !.status = status, !.ret = ret,
              !.pc = IF t.kind \in {"refreshProfile", "bootstrap"}
                     THEN "rp_set" ELSE "done"]

\* How a call ends when getTokens rejects.
EndGetTokens(t, out) ==
    IF t.kind = "getAccessToken"
    THEN [t EXCEPT !.out = out, !.pc = "done"]
    ELSE EndAuthFetch(t, out, 0, Null)

\* The synchronous part of setTokens: the shadow is assigned at once.
setTokensMem(a, r) ==
    /\ accessTokenMem' = a
    /\ refreshTokenMem' = r

setTokens(t, a, r) == [t EXCEPT !.pc = "stA_io", !.wa = a, !.wr = r]

\* The coroutine waits on a promise that is already settled: its continuation
\* is in the microtask queue.
MicroReady(t) ==
    \/ t.pc \in {"gt_ret", "rp_set", "bs_loading"}
    \/ t.pc \in {"rf_await", "rf_join"} /\ tasks[t.flight].pc = "done"

\* The microtask queue is empty: the next completion or user event is delivered.
JsIdle == \A i \in 1..Len(tasks) : ~MicroReady(tasks[i])

----------------------------------------------------------------------------
InitAuth ==
    /\ accessTokenMem = Null
    /\ refreshTokenMem = Null
    /\ refreshInFlight = 0
    /\ user = Null
    /\ loading = TRUE
    /\ mounted = FALSE
    /\ tasks = << >>
    /\ nfallbacks = 0

Spawn(t) == tasks' = Append(tasks, t)

\* useEffect(() => { (async () => { await refreshProfile(); setLoading(false) })() }, [])
Mount ==
    /\ ~mounted
    /\ mounted' = TRUE
    /\ Spawn(getTokens(NewTask("bootstrap", TRUE), "af"))
    /\ UNCHANGED <<accessTokenMem, refreshTokenMem, refreshInFlight, 
                   user, loading>>
    /\ UNCHANGED <<nfallbacks, nonAuthVars>>

CanCall == mounted /\ JsIdle /\ NumCalls < MaxTasks

CallRefreshProfile ==
    /\ CanCall
    /\ Spawn(getTokens(NewTask("refreshProfile", TRUE), "af"))
    /\ UNCHANGED <<accessTokenMem, refreshTokenMem, refreshInFlight, 
                   user, loading, mounted>>
    /\ UNCHANGED <<nfallbacks, nonAuthVars>>

CallAuthFetch ==
    /\ CanCall
    /\ \E retry \in BOOLEAN : Spawn(getTokens(NewTask("authFetch", retry), "af"))
    /\ UNCHANGED <<accessTokenMem, refreshTokenMem, refreshInFlight, 
                   user, loading, mounted>>
    /\ UNCHANGED <<nfallbacks, nonAuthVars>>

CallGetAccessToken ==
    /\ CanCall
    /\ Spawn(getTokens(NewTask("getAccessToken", TRUE), "ga"))
    /\ UNCHANGED <<accessTokenMem, refreshTokenMem, refreshInFlight, 
                   user, loading, mounted>>
    /\ UNCHANGED <<nfallbacks, nonAuthVars>>

\* signIn / signUp: apiLogin / apiRegister issue their request at once.
CallSignIn ==
    /\ CanCall
    /\ Spawn([NewTask("signIn", TRUE) EXCEPT !.pc = "lg_fetch"])
    /\ UNCHANGED <<accessTokenMem, refreshTokenMem, refreshInFlight, 
                   user, loading, mounted>>
    /\ UNCHANGED <<nfallbacks, nonAuthVars>>

CallSignUp ==
    /\ CanCall
    /\ Spawn([NewTask("signUp", TRUE) EXCEPT !.pc = "lg_fetch"])
    /\ UNCHANGED <<accessTokenMem, refreshTokenMem, refreshInFlight, 
                   user, loading, mounted>>
    /\ UNCHANGED <<nfallbacks, nonAuthVars>>

\* No credential in the shadow or in the store, no user, and no call under way.
SignedOut ==
    /\ accessTokenMem = Null /\ refreshTokenMem = Null
    /\ \A k \in CredentialKeys : secureStore[k] = Null /\ asyncStorage[k] = Null
    /\ user = Null
    /\ \A i \in 1..Len(tasks) : tasks[i].pc = "done"

\* signOut: setTokens(null, null) runs up to its first await.
CallSignOut ==
    /\ CanCall
    /\ setTokensMem(Null, Null)
    /\ Spawn(setTokens([NewTask("signOut", TRUE) EXCEPT !.signedOut = SignedOut],
                       Null, Null))
    /\ UNCHANGED <<refreshInFlight, user, loading, mounted>>
    /\ UNCHANGED <<nfallbacks, nonAuthVars>>

----------------------------------------------------------------------------
\* getItem(key): SecureStore.getItemAsync on a native platform, and
\* AsyncStorage.getItem on the web or when the secure store is unavailable or
\* raises.  The read takes effect on one backend, or the failure of AsyncStorage
\* is delivered.
GetItemIO(i) ==
    /\ tasks[i].pc \in {"gtA_io", "gtR_io"}
    /\ LET t == tasks[i]
           key == IF t.pc = "gtA_io" THEN ACCESS_KEY ELSE REFRESH_KEY
           resumed(v) == [t EXCEPT !.io = v,
                                   !.pc = IF t.pc = "gtA_io" THEN "gtA_res" ELSE "gtR_res"]
       IN \/ /\ platform # "web"
             /\ tasks' = [tasks EXCEPT ![i] = resumed(secureStore[key])]
             /\ UNCHANGED nfallbacks
          \/ /\ Generic
             /\ tasks' = [tasks EXCEPT ![i] = resumed(asyncStorage[key])]
          \/ /\ JsIdle
             /\ tasks' = [tasks EXCEPT ![i] = EndGetTokens(t, "storage")]
             /\ UNCHANGED nfallbacks
    /\ UNCHANGED <<accessTokenMem, refreshTokenMem, refreshInFlight,
                   user, loading, mounted>>
    /\ UNCHANGED nonAuthVars

\* if (!accessTokenMem) accessTokenMem = await getItem(ACCESS_KEY);
GetTokensAccess(i) ==
    /\ tasks[i].pc = "gtA_res"
    /\ JsIdle
    /\ accessTokenMem' = tasks[i].io
    /\ tasks' = [tasks EXCEPT ![i] =
          IF refreshTokenMem = Null
          THEN [@ EXCEPT !.pc = "gtR_io"]
          ELSE [@ EXCEPT !.pc = "gt_ret", !.at = tasks[i].io, !.rt = refreshTokenMem]]
    /\ UNCHANGED <<refreshTokenMem, refreshInFlight, user, loading, mounted>>
    /\ UNCHANGED <<nfallbacks, nonAuthVars>>

\* if (!refreshTokenMem) refreshTokenMem = await getItem(REFRESH_KEY); return {...}
GetTokensRefresh(i) ==
    /\ tasks[i].pc = "gtR_res"
    /\ JsIdle
    /\ refreshTokenMem' = tasks[i].io
    /\ tasks' = [tasks EXCEPT ![i] =
          [@ EXCEPT !.pc = "gt_ret", !.at = accessTokenMem, !.rt = tasks[i].io]]
    /\ UNCHANGED <<accessTokenMem, refreshInFlight, user, loading, mounted>>
    /\ UNCHANGED <<nfallbacks, nonAuthVars>>

\* getAccessToken: return accessToken ?? null
GetAccessTokenReturn(i) ==
    /\ tasks[i].pc = "gt_ret" /\ tasks[i].ctx = "ga"
    /\ tasks' = [tasks EXCEPT ![i] =
          [@ EXCEPT !.pc = "done", !.out = "ok", !.ret = tasks[i].at]]
    /\ UNCHANGED <<accessTokenMem, refreshTokenMem, refreshInFlight, 
                   user, loading, mounted>>
    /\ UNCHANGED <<nfallbacks, nonAuthVars>>

\* authFetch: the first request goes out with the credential getTokens returned.
AuthFetchSend(i) ==
    /\ tasks[i].pc = "gt_ret" /\ tasks[i].ctx = "af"
    /\ tasks' = [tasks EXCEPT ![i] = [@ EXCEPT !.pc = "af_fetch1", !.nreq = 1,
                                           !.sent1 = Request(tasks[i], tasks[i].at)]]
    /\ UNCHANGED <<accessTokenMem, refreshTokenMem, refreshInFlight, 
                   user, loading, mounted>>
    /\ UNCHANGED <<nfallbacks, nonAuthVars>>

\* Mutant: every response that is not a success leads to the refresh.
AuthFetchResponse_anyFailure(i) ==
    /\ tasks[i].pc = "af_fetch1"
    /\ JsIdle
    /\ LET t == tasks[i] IN
       \/ tasks' = [tasks EXCEPT ![i] = EndAuthFetch(t, "network", 0, Null)]
       \/ \E s \in Statuses :
            LET t1 == [t EXCEPT !.st1 = s] IN
            tasks' = [tasks EXCEPT ![i] =
               IF ResOk(s) THEN EndAuthFetch(t1, "ok", s, "body1")
               ELSE IF ~t.retry
                    THEN EndAuthFetch(t1, "UNAUTHORIZED", 401, "body1")
                    ELSE getTokens([t1 EXCEPT !.nref = @ + 1,
                                              !.begunIdle = (refreshInFlight = 0),
                                              !.begunAt = NumRefreshPosts], "rf")]
    /\ UNCHANGED <<accessTokenMem, refreshTokenMem, refreshInFlight, 
                   user, loading, mounted>>
    /\ UNCHANGED <<nfallbacks, nonAuthVars>>

\* authFetch: the first response (or the failure of the request).
AuthFetchResponse(i) ==
    /\ tasks[i].pc = "af_fetch1"
    /\ JsIdle
    /\ LET t == tasks[i] IN
       \/ tasks' = [tasks EXCEPT ![i] = EndAuthFetch(t, "network", 0, Null)]
       \/ \E s \in Statuses :
            LET t1 == [t EXCEPT !.st1 = s] IN
            tasks' = [tasks EXCEPT ![i] =
               IF s # 401
               THEN IF ResOk(s) THEN EndAuthFetch(t1, "ok", s, "body1")
                    ELSE EndAuthFetch(t1, "Request failed", s, "body1")
               ELSE IF ~t.retry
                    THEN EndAuthFetch(t1, "UNAUTHORIZED", 401, "body1")
                    ELSE getTokens([t1 EXCEPT !.nref = @ + 1,
                                              !.begunIdle = (refreshInFlight = 0),
                                              !.begunAt = NumRefreshPosts], "rf")]
    /\ UNCHANGED <<accessTokenMem, refreshTokenMem, refreshInFlight, 
                   user, loading, mounted>>
    /\ UNCHANGED <<nfallbacks, nonAuthVars>>

\* Mutant: the marker is not consulted, every call starts its own request.
RefreshStart_noJoin(i) ==
    /\ tasks[i].pc = "gt_ret" /\ tasks[i].ctx = "rf"
    /\ LET t == tasks[i] IN
       IF t.rt = Null
       THEN /\ tasks' = [tasks EXCEPT ![i] = EndAuthFetch(t, "No refresh token", 0, Null)]
            /\ UNCHANGED refreshInFlight
       ELSE /\ refreshInFlight' = Len(tasks) + 1
            /\ tasks' = Append(
                  [tasks EXCEPT ![i] =
                     [t EXCEPT !.pc = "rf_await", !.flight = Len(tasks) + 1]],
                  [NewTask("refreshIIFE", TRUE) EXCEPT !.pc = "ii_fetch", !.at = t.at,
                                                           !.rt = t.rt,
                                                      !.owner = i])
    /\ UNCHANGED <<accessTokenMem, refreshTokenMem, user, loading, mounted>>
    /\ UNCHANGED <<nfallbacks, nonAuthVars>>

\* refreshAccessToken after getTokens: no credential, join, or start the request.
RefreshStart(i) ==
    /\ tasks[i].pc = "gt_ret" /\ tasks[i].ctx = "rf"
    /\ LET t == tasks[i] IN
       IF t.rt = Null
       THEN /\ tasks' = [tasks EXCEPT ![i] = EndAuthFetch(t, "No refresh token", 0, Null)]
            /\ UNCHANGED refreshInFlight
       ELSE IF refreshInFlight # 0
            THEN /\ tasks' = [tasks EXCEPT ![i] =
                       [t EXCEPT !.pc = "rf_join", !.flight = refreshInFlight]]
                 /\ UNCHANGED refreshInFlight
            ELSE /\ refreshInFlight' = Len(tasks) + 1
                 /\ tasks' = Append(
                       [tasks EXCEPT ![i] =
                          [t EXCEPT !.pc = "rf_await", !.flight = Len(tasks) + 1]],
                       [NewTask("refreshIIFE", TRUE) EXCEPT !.pc = "ii_fetch", !.at = t.at,
                                                           !.rt = t.rt,
                                                           !.owner = i])
    /\ UNCHANGED <<accessTokenMem, refreshTokenMem, user, loading, mounted>>
    /\ UNCHANGED <<nfallbacks, nonAuthVars>>

\* The refresh request is answered: lines 60-66 up to the first await of setTokens.
RefreshResponse(f) ==
    /\ tasks[f].pc = "ii_fetch"
    /\ JsIdle
    /\ LET t == tasks[f] IN
       \/ /\ tasks' = [tasks EXCEPT ![f] = [t EXCEPT !.pc = "done", !.out = "network"]]
          /\ UNCHANGED <<accessTokenMem, refreshTokenMem>>
       \/ \E s \in Statuses, a \in AccessVals \cup {Null} :
            IF ~ResOk(s) \/ a = Null
            THEN /\ setTokensMem(Null, Null)
                 /\ tasks' = [tasks EXCEPT ![f] =
                       setTokens([t EXCEPT !.st1 = s, !.out = "rejected"], Null, Null)]
            ELSE /\ setTokensMem(a, t.rt)
                 /\ tasks' = [tasks EXCEPT ![f] =
                       setTokens([t EXCEPT !.st1 = s, !.newAccess = a], a, t.rt)]
    /\ UNCHANGED <<refreshInFlight, user, loading, mounted>>
    /\ UNCHANGED <<nfallbacks, nonAuthVars>>

\* Mutant: a rejected login or registration is reported as UNAUTHORIZED (401).
LoginResponse_paraphrased(i) ==
    /\ tasks[i].pc = "lg_fetch"
    /\ JsIdle
    /\ LET t == tasks[i] IN
       \/ /\ tasks' = [tasks EXCEPT ![i] = [t EXCEPT !.pc = "done", !.out = "network"]]
          /\ UNCHANGED <<accessTokenMem, refreshTokenMem>>
       \/ \E s \in RejectStatuses :
          /\ tasks' = [tasks EXCEPT ![i] =
                [t EXCEPT !.pc = "done", !.st1 = s, !.out = "UNAUTHORIZED",
                          !.status = 401, !.ret = Null]]
          /\ UNCHANGED <<accessTokenMem, refreshTokenMem>>
       \/ /\ setTokensMem(LoginAccess, LoginRefresh)
          /\ tasks' = [tasks EXCEPT ![i] =
                setTokens([t EXCEPT !.st1 = 200, !.u = "u1"], LoginAccess, LoginRefresh)]
    /\ UNCHANGED <<refreshInFlight, user, loading, mounted>>
    /\ UNCHANGED <<nfallbacks, nonAuthVars>>

\* The login / registration request is answered.
LoginResponse(i) ==
    /\ tasks[i].pc = "lg_fetch"
    /\ JsIdle
    /\ LET t == tasks[i]
           name == IF t.kind = "signIn" THEN "LOGIN_FAILED" ELSE "REGISTER_FAILED"
       IN
       \/ /\ tasks' = [tasks EXCEPT ![i] = [t EXCEPT !.pc = "done", !.out = "network"]]
          /\ UNCHANGED <<accessTokenMem, refreshTokenMem>>
       \/ \E s \in RejectStatuses :
          /\ tasks' = [tasks EXCEPT ![i] =
                [t EXCEPT !.pc = "done", !.st1 = s, !.out = name, !.status = s,
                          !.ret = "body1"]]
          /\ UNCHANGED <<accessTokenMem, refreshTokenMem>>
       \/ /\ setTokensMem(LoginAccess, LoginRefresh)
          /\ tasks' = [tasks EXCEPT ![i] =
                setTokens([t EXCEPT !.st1 = 200, !.u = "u1"], LoginAccess, LoginRefresh)]
    /\ UNCHANGED <<refreshInFlight, user, loading, mounted>>
    /\ UNCHANGED <<nfallbacks, nonAuthVars>>

\* setItem / deleteItem of setTokens: the secure operation on a native platform,
\* and the AsyncStorage operation on the web or when the secure store is
\* unavailable or raises.  The operation takes effect on one backend, or the
\* failure of AsyncStorage is delivered.
SetTokensIO(i) ==
    /\ tasks[i].pc \in {"stA_io", "stR_io"}
    /\ LET t == tasks[i]
           key == IF t.pc = "stA_io" THEN ACCESS_KEY ELSE REFRESH_KEY
           val == IF t.pc = "stA_io" THEN t.wa ELSE t.wr
           resumed == [t EXCEPT !.pc = IF t.pc = "stA_io" THEN "stR_io" ELSE "st_ret"]
       IN \/ /\ platform # "web"
             /\ secureStore' = [secureStore EXCEPT ![key] = val]
             /\ tasks' = [tasks EXCEPT ![i] = resumed]
             /\ UNCHANGED <<asyncStorage, nfallbacks>>
          \/ /\ Generic
             /\ asyncStorage' = [asyncStorage EXCEPT ![key] = val]
             /\ tasks' = [tasks EXCEPT ![i] = resumed]
             /\ UNCHANGED secureStore
          \/ /\ JsIdle
             /\ tasks' = [tasks EXCEPT ![i] = [t EXCEPT !.pc = "done", !.out = "storage"]]
             /\ UNCHANGED <<secureStore, asyncStorage, nfallbacks>>
    /\ UNCHANGED <<accessTokenMem, refreshTokenMem, refreshInFlight, user, loading, mounted>>
    /\ UNCHANGED nonCredVars

\* Mutant: a rejected refresh resolves like a network failure, without status.
RefreshSettle_plain(f) ==
    /\ tasks[f].pc = "st_ret" /\ tasks[f].kind = "refreshIIFE"
    /\ JsIdle
    /\ refreshInFlight' = 0
    /\ tasks' = [tasks EXCEPT ![f] =
          IF tasks[f].out = "rejected"
          THEN [@ EXCEPT !.pc = "done", !.out = "Request failed", !.status = tasks[f].st1]
          ELSE [@ EXCEPT !.pc = "done", !.out = "ok", !.ret = tasks[f].newAccess]]
    /\ UNCHANGED <<accessTokenMem, refreshTokenMem, user, loading, mounted>>
    /\ UNCHANGED <<nfallbacks, nonAuthVars>>

\* The refresh resumes after setTokens: lines 63-64 and 67-68.
RefreshSettle(f) ==
    /\ tasks[f].pc = "st_ret" /\ tasks[f].kind = "refreshIIFE"
    /\ JsIdle
    /\ refreshInFlight' = 0
    /\ tasks' = [tasks EXCEPT ![f] =
          IF tasks[f].out = "rejected"
          THEN [@ EXCEPT !.pc = "done", !.out = "UNAUTHORIZED", !.status = 401]
          ELSE [@ EXCEPT !.pc = "done", !.out = "ok", !.ret = tasks[f].newAccess]]
    /\ UNCHANGED <<accessTokenMem, refreshTokenMem, user, loading, mounted>>
    /\ UNCHANGED <<nfallbacks, nonAuthVars>>

\* Mutant: the call resolves after setTokens without setUser.
SignSettle_noUser(i) ==
    /\ tasks[i].pc = "st_ret" /\ tasks[i].kind \in {"signIn", "signUp", "signOut"}
    /\ JsIdle
    /\ tasks' = [tasks EXCEPT ![i] = [@ EXCEPT !.pc = "done", !.out = "ok"]]
    /\ UNCHANGED <<accessTokenMem, refreshTokenMem, refreshInFlight, user,
                   loading, mounted>>
    /\ UNCHANGED <<nfallbacks, nonAuthVars>>

\* signIn / signUp / signOut resume after setTokens: setUser.
SignSettle(i) ==
    /\ tasks[i].pc = "st_ret" /\ tasks[i].kind \in {"signIn", "signUp", "signOut"}
    /\ JsIdle
    /\ user' = tasks[i].u
    /\ tasks' = [tasks EXCEPT ![i] = [@ EXCEPT !.pc = "done", !.out = "ok"]]
    /\ UNCHANGED <<accessTokenMem, refreshTokenMem, refreshInFlight, 
                   loading, mounted>>
    /\ UNCHANGED <<nfallbacks, nonAuthVars>>

\* Mutant: the retry carries the headers of the first attempt.
AfterRefresh_stale(t, fl) ==
    IF fl.out = "ok"
    THEN [t EXCEPT !.pc = "af_fetch2", !.newAccess = fl.ret, !.nreq = @ + 1,
                   !.sent2 = t.sent1]
    ELSE EndAuthFetch(t, fl.out, fl.status, Null)

\* Mutant: the retry goes out whatever the refresh handed back.
AfterRefresh_retry(t, fl) ==
    [t EXCEPT !.pc = "af_fetch2", !.newAccess = fl.ret, !.nreq = @ + 1,
              !.sent2 = Request(t, fl.ret)]

\* What the awaited refresh hands to authFetch: the retry goes out, or the error.
AfterRefresh(t, fl) ==
    IF fl.out = "ok"
    THEN [t EXCEPT !.pc = "af_fetch2", !.newAccess = fl.ret, !.nreq = @ + 1,
                   !.sent2 = Request(t, fl.ret)]
    ELSE EndAuthFetch(t, fl.out, fl.status, Null)

\* Mutant: the caller that started the refresh resumes without the finally.
RefreshAwait_noFinally(i) ==
    /\ tasks[i].pc = "rf_await"
    /\ tasks[tasks[i].flight].pc = "done"
    /\ tasks' = [tasks EXCEPT ![i] = AfterRefresh(tasks[i], tasks[tasks[i].flight])]
    /\ UNCHANGED <<accessTokenMem, refreshTokenMem, refreshInFlight, user,
                   loading, mounted>>
    /\ UNCHANGED <<nfallbacks, nonAuthVars>>

\* The caller that started the refresh resumes: finally { refreshInFlight = null }
RefreshAwait(i) ==
    /\ tasks[i].pc = "rf_await"
    /\ tasks[tasks[i].flight].pc = "done"
    /\ refreshInFlight' = 0
    /\ tasks' = [tasks EXCEPT ![i] = AfterRefresh(tasks[i], tasks[tasks[i].flight])]
    /\ UNCHANGED <<accessTokenMem, refreshTokenMem, user, loading, mounted>>
    /\ UNCHANGED <<nfallbacks, nonAuthVars>>

\* A caller that joined the pending refresh resumes with its outcome.  The
\* promise runs its reactions in the order they were attached: the await of
\* line 72 was attached when the promise was created, before any join.
RefreshJoin(i) ==
    /\ tasks[i].pc = "rf_join"
    /\ tasks[tasks[i].flight].pc = "done"
    /\ LET o == tasks[tasks[tasks[i].flight].owner] IN
          ~(o.pc = "rf_await" /\ o.flight = tasks[i].flight)
    /\ tasks' = [tasks EXCEPT ![i] = AfterRefresh(tasks[i], tasks[tasks[i].flight])]
    /\ UNCHANGED <<accessTokenMem, refreshTokenMem, refreshInFlight, 
                   user, loading, mounted>>
    /\ UNCHANGED <<nfallbacks, nonAuthVars>>

\* Mutant: a second 401 is answered by a third request.
AuthFetchRetryResponse_again(i) ==
    /\ tasks[i].pc = "af_fetch2"
    /\ JsIdle
    /\ LET t == tasks[i] IN
       \/ tasks' = [tasks EXCEPT ![i] = EndAuthFetch(t, "network", 0, Null)]
       \/ \E s \in Statuses :
            tasks' = [tasks EXCEPT ![i] =
               IF s = 401 THEN [t EXCEPT !.nreq = 3]
               ELSE IF ResOk(s) THEN EndAuthFetch([t EXCEPT !.st2 = s], "ok", s, "body2")
               ELSE EndAuthFetch([t EXCEPT !.st2 = s], "Request failed", s, "body2")]
    /\ UNCHANGED <<accessTokenMem, refreshTokenMem, refreshInFlight, 
                   user, loading, mounted>>
    /\ UNCHANGED <<nfallbacks, nonAuthVars>>

\* authFetch: the retried response (or the failure of the request).
AuthFetchRetryResponse(i) ==
    /\ tasks[i].pc = "af_fetch2"
    /\ JsIdle
    /\ LET t == tasks[i] IN
       \/ tasks' = [tasks EXCEPT ![i] = EndAuthFetch(t, "network", 0, Null)]
       \/ \E s \in Statuses :
            tasks' = [tasks EXCEPT ![i] =
               IF ResOk(s) THEN EndAuthFetch([t EXCEPT !.st2 = s], "ok", s, "body2")
               ELSE EndAuthFetch([t EXCEPT !.st2 = s], "Request failed", s, "body2")]
    /\ UNCHANGED <<accessTokenMem, refreshTokenMem, refreshInFlight, 
                   user, loading, mounted>>
    /\ UNCHANGED <<nfallbacks, nonAuthVars>>

\* Mutant: the catch of refreshProfile also drops the access shadow.
SetUser_dropShadow(i) ==
    /\ tasks[i].pc = "rp_set"
    /\ user' = IF tasks[i].out = "ok" THEN tasks[i].ret ELSE Null
    /\ accessTokenMem' = IF tasks[i].out = "ok" THEN accessTokenMem ELSE Null
    /\ tasks' = [tasks EXCEPT ![i] =
          [@ EXCEPT !.pc = IF tasks[i].kind = "bootstrap" THEN "bs_loading" ELSE "done"]]
    /\ UNCHANGED <<refreshTokenMem, refreshInFlight, loading, mounted>>
    /\ UNCHANGED <<nfallbacks, nonAuthVars>>

\* refreshProfile: setUser(u) on success, setUser(null) in the catch.
SetUser(i) ==
    /\ tasks[i].pc = "rp_set"
    /\ user' = IF tasks[i].out = "ok" THEN tasks[i].ret ELSE Null
    /\ tasks' = [tasks EXCEPT ![i] =
          [@ EXCEPT !.pc = IF tasks[i].kind = "bootstrap" THEN "bs_loading" ELSE "done"]]
    /\ UNCHANGED <<accessTokenMem, refreshTokenMem, refreshInFlight, 
                   loading, mounted>>
    /\ UNCHANGED <<nfallbacks, nonAuthVars>>

\* Mutant: loading is cleared only when the profile check succeeded.
SetLoading_onSuccess(i) ==
    /\ tasks[i].pc = "bs_loading"
    /\ loading' = IF tasks[i].out = "ok" THEN FALSE ELSE loading
    /\ tasks' = [tasks EXCEPT ![i] = [@ EXCEPT !.pc = "done"]]
    /\ UNCHANGED <<accessTokenMem, refreshTokenMem, refreshInFlight, 
                   user, mounted>>
    /\ UNCHANGED <<nfallbacks, nonAuthVars>>

\* The mount effect: setLoading(false)
SetLoading(i) ==
    /\ tasks[i].pc = "bs_loading"
    /\ loading' = FALSE
    /\ tasks' = [tasks EXCEPT ![i] = [@ EXCEPT !.pc = "done"]]
    /\ UNCHANGED <<accessTokenMem, refreshTokenMem, refreshInFlight, 
                   user, mounted>>
    /\ UNCHANGED <<nfallbacks, nonAuthVars>>

Next ==
    \/ Mount
    \/ CallRefreshProfile
    \/ CallAuthFetch
    \/ CallGetAccessToken
    \/ CallSignIn
    \/ CallSignUp
    \/ CallSignOut
    \/ \E i \in 1..Len(tasks) : GetItemIO(i)
    \/ \E i \in 1..Len(tasks) : GetTokensAccess(i)
    \/ \E i \in 1..Len(tasks) : GetTokensRefresh(i)
    \/ \E i \in 1..Len(tasks) : GetAccessTokenReturn(i)
    \/ \E i \in 1..Len(tasks) : AuthFetchSend(i)
    \/ \E i \in 1..Len(tasks) : AuthFetchResponse(i)
    \/ \E i \in 1..Len(tasks) : RefreshStart(i)
    \/ \E i \in 1..Len(tasks) : RefreshResponse(i)
    \/ \E i \in 1..Len(tasks) : LoginResponse(i)
    \/ \E i \in 1..Len(tasks) : SetTokensIO(i)
    \/ \E i \in 1..Len(tasks) : RefreshSettle(i)
    \/ \E i \in 1..Len(tasks) : SignSettle(i)
    \/ \E i \in 1..Len(tasks) : RefreshAwait(i)
    \/ \E i \in 1..Len(tasks) : RefreshJoin(i)
    \/ \E i \in 1..Len(tasks) : AuthFetchRetryResponse(i)
    \/ \E i \in 1..Len(tasks) : SetUser(i)
    \/ \E i \in 1..Len(tasks) : SetLoading(i)

----------------------------------------------------------------------------
(***************************************************************************)
(* The event bus.  There is one event, "notes:changed"; an array that was  *)
(* never created behaves as an empty one in off and emit.  emit is a       *)
(* synchronous loop: while a callback runs, the only bus calls are the     *)
(* ones that callback makes.                                               *)
(***************************************************************************)
InitBus ==
    /\ listeners = << >>
    /\ regs = << >>
    /\ emitK = 0
    /\ emitLen = 0
    /\ payload = Null
    /\ inHandler = FALSE
    /\ hops = 0
    /\ snapshot = << >>
    /\ invoked = << >>
    /\ offDuring = {}
    /\ onDuring = {}
    /\ called = {}

\* arr.indexOf(cb), counted from 1; 0 stands for -1.
indexOf(arr, cb) ==
    IF \E j \in 1..Len(arr) : arr[j] = cb
    THEN CHOOSE j \in 1..Len(arr) : arr[j] = cb /\ \A k \in 1..(j - 1) : arr[k] # cb
    ELSE 0

\* arr.splice(i, 1)
splice(arr, i) == SubSeq(arr, 1, i - 1) \o SubSeq(arr, i + 1, Len(arr))

\* (listeners[event] ||= []).push(cb)
on(arr, cb) == Append(arr, cb)

\* const i = arr.indexOf(cb); if (i >= 0) arr.splice(i, 1)
off(arr, cb) ==
    LET i == indexOf(arr, cb) IN IF i >= 1 THEN splice(arr, i) ELSE arr

\* on called by a screen, outside any emit.
On(cb) ==
    /\ emitK = 0
    /\ Len(regs) < MaxRegs
    /\ listeners' = on(listeners, cb)
    /\ regs' = Append(regs, cb)
    /\ UNCHANGED <<emitK, emitLen, payload, inHandler, hops, snapshot, invoked,
                   offDuring, onDuring>>
    /\ UNCHANGED called
    /\ UNCHANGED nonBusVars

\* The function on returned for registration r, called outside any emit.
Unsubscribe(r) ==
    /\ emitK = 0
    /\ listeners' = off(listeners, regs[r])
    /\ UNCHANGED <<regs, emitK, emitLen, payload, inHandler, hops, snapshot, invoked,
                   offDuring, onDuring>>
    /\ called' = called \cup {r}
    /\ UNCHANGED nonBusVars

\* emit is called: forEach reads the length once.
Emit(p) ==
    /\ emitK = 0
    /\ emitK' = IF Len(listeners) = 0 THEN 0 ELSE 1
    /\ emitLen' = Len(listeners)
    /\ payload' = p
    /\ snapshot' = listeners
    /\ invoked' = << >>
    /\ offDuring' = {}
    /\ onDuring' = {}
    /\ UNCHANGED <<listeners, regs, inHandler, hops>>
    /\ UNCHANGED called
    /\ UNCHANGED nonBusVars

\* forEach visits index emitK: the callback there is called when the index exists.
ForEachVisit ==
    /\ emitK >= 1 /\ ~inHandler
    /\ IF emitK <= Len(listeners)
       THEN /\ invoked' = Append(invoked, [cb |-> listeners[emitK], payload |-> payload])
            /\ inHandler' = TRUE
            /\ hops' = 0
            /\ UNCHANGED emitK
       ELSE /\ emitK' = IF emitK >= emitLen THEN 0 ELSE emitK + 1
            /\ UNCHANGED <<invoked, inHandler, hops>>
    /\ UNCHANGED <<listeners, regs, emitLen, payload, snapshot, offDuring, onDuring>>
    /\ UNCHANGED called
    /\ UNCHANGED nonBusVars

\* The running callback subscribes a callback.
HandlerOn(cb) ==
    /\ inHandler /\ hops < MaxHandlerOps
    /\ Len(regs) < MaxRegs
    /\ listeners' = on(listeners, cb)
    /\ regs' = Append(regs, cb)
    /\ hops' = hops + 1
    /\ onDuring' = onDuring \cup {cb}
    /\ UNCHANGED <<emitK, emitLen, payload, inHandler, snapshot, invoked, offDuring>>
    /\ UNCHANGED called
    /\ UNCHANGED nonBusVars

\* The running callback calls the unsubscribe function of registration r.
HandlerOff(r) ==
    /\ inHandler /\ hops < MaxHandlerOps
    /\ listeners' = off(listeners, regs[r])
    /\ hops' = hops + 1
    /\ offDuring' = offDuring \cup {regs[r]}
    /\ UNCHANGED <<regs, emitK, emitLen, payload, inHandler, snapshot, invoked, onDuring>>
    /\ called' = called \cup {r}
    /\ UNCHANGED nonBusVars

\* The running callback returns: forEach moves to the next index, or ends.
HandlerReturn ==
    /\ inHandler
    /\ inHandler' = FALSE
    /\ emitK' = IF emitK >= emitLen THEN 0 ELSE emitK + 1
    /\ UNCHANGED <<listeners, regs, emitLen, payload, hops, snapshot, invoked,
                   offDuring, onDuring>>
    /\ UNCHANGED called
    /\ UNCHANGED nonBusVars

NextBus ==
    \/ \E cb \in Callbacks : On(cb)
    \/ \E r \in 1..Len(regs) : Unsubscribe(r)
    \/ \E p \in Payloads : Emit(p)
    \/ ForEachVisit
    \/ \E cb \in Callbacks : HandlerOn(cb)
    \/ \E r \in 1..Len(regs) : HandlerOff(r)
    \/ HandlerReturn

----------------------------------------------------------------------------
(***************************************************************************)
(* The artifact cache (lib/toolsCache.ts) over AsyncStorage, the keys of    *)
(* AsyncStorage and what it holds when the application starts.  An         *)
(* AsyncStorage operation takes effect at one instant, or fails.           *)
(***************************************************************************)
KEY_FC(noteId) == "tools:flashcards:" \o noteId
KEY_QZ(noteId) == "tools:quiz:" \o noteId
SUMMARY_KEY(id) == "note_summary_" \o id
INDEXED_KEY(id) == "note_indexed_" \o id
LAST_INDEXED_KEY == "last-indexed-note-id"

StorageKeys ==
    {KEY_FC(n) : n \in NoteIds} \cup {KEY_QZ(n) : n \in NoteIds}
      \cup {SUMMARY_KEY(n) : n \in NoteIds} \cup {INDEXED_KEY(n) : n \in NoteIds}
      \cup {LAST_INDEXED_KEY} \cup CredentialKeys

\* JSON.stringify of a list of cards or questions.
RECURSIVE JoinItems(_)
JoinItems(v) ==
    IF Len(v) = 0 THEN ""
    ELSE IF Len(v) = 1 THEN "\"" \o v[1] \o "\""
    ELSE "\"" \o v[1] \o "\"," \o JoinItems(Tail(v))
Stringify(v) == "[" \o JoinItems(v) \o "]"

\* JSON.parse: the list a string denotes; a string that denotes none makes it throw.
Parseable(raw) == \E v \in Artifacts \cup {<< >>} : Stringify(v) = raw
Parse(raw) == CHOOSE v \in Artifacts \cup {<< >>} : Stringify(v) = raw

\* A string JSON.parse rejects: an entry cut short.
Corrupt == "[\"k1"

CacheKeys == {KEY_FC(n) : n \in NoteIds} \cup {KEY_QZ(n) : n \in NoteIds}

\* What a get resolves with, null or a list, as a set of at most one element.
Nothing == {}
Just(v) == {v}

\* Mutant: a string JSON.parse rejects is read as the empty list.
Read_lenient(raw) ==
    IF raw = Null \/ raw = "" THEN Nothing
    ELSE IF Parseable(raw) THEN Just(Parse(raw)) ELSE Just(<< >>)

\* try { return raw ? JSON.parse(raw) : null } catch { return null }
Read(raw) ==
    IF raw = Null \/ raw = "" THEN Nothing
    ELSE IF Parseable(raw) THEN Just(Parse(raw)) ELSE Nothing

\* What AsyncStorage can hold when the application starts: what earlier runs
\* left.  cache: the entry at each cache key.  sums: the summary stored for each
\* note.  flags: the notes flagged as indexed.  ptr: the last-indexed pointer.
\* creds: the credentials setItem left there, on the web or by a fallback.
Storage(cache, sums, flags, ptr, creds) ==
    [k \in StorageKeys |->
        IF k \in CacheKeys THEN cache[k]
        ELSE IF k \in CredentialKeys THEN creds[k]
        ELSE IF k = LAST_INDEXED_KEY THEN ptr
        ELSE IF \E n \in NoteIds : k = SUMMARY_KEY(n)
             THEN sums[CHOOSE n \in NoteIds : k = SUMMARY_KEY(n)]
        ELSE IF \E n \in flags : k = INDEXED_KEY(n) THEN "true"
        ELSE Null]

CacheEntries == {Null, Corrupt} \cup {Stringify(v) : v \in Artifacts}

\* A pair of credentials, and a start of the application: Platform.OS and the
\* credentials the secure store and AsyncStorage hold.  There is no secure store
\* on the web.
Pair(a, r) == [k \in CredentialKeys |-> IF k = ACCESS_KEY THEN a ELSE r]
NoPair == Pair(Null, Null)
Start(p, sec, asy) == [platform |-> p, secure |-> sec, generic |-> asy]

\* The credentials a run can leave in a backend: none, those of an earlier
\* session, an access credential a refresh handed out, those of a login.
Pairs ==
    {Pair(a, r) : a \in {Null, StoredAccess, LoginAccess} \cup AccessVals,
                  r \in {Null, StoredRefresh, LoginRefresh}}
Starts ==
    {Start("web", NoPair, p) : p \in Pairs}
      \cup {Start("ios", p, q) : p \in Pairs, q \in Pairs}

\* The stores when the application starts: AsyncStorage holds one of the caches
\* C, one of the summary stores S, flags of notes drawn from F and a pointer
\* drawn from P, of listed and of unlisted notes alike; the platform and the
\* credentials are those of a start drawn from K.
InitStorage(C, S, F, P, K) ==
    \E cache \in C, sums \in S, flags \in SUBSET F, ptr \in P, k \in K :
        /\ platform = k.platform
        /\ secureStore = k.secure
        /\ asyncStorage = Storage(cache, sums, flags, ptr, k.generic)

\* The uploads screen before it is mounted holds its useState values (lines
\* 46-56); the backend holds any notes.
InitNotes ==
    /\ serverNotes \in SUBSET NoteIds
    /\ notes = {}
    /\ selectedNoteId = Null
    /\ summaryText = ""
    /\ summaryBusy = FALSE
    /\ loadingList = TRUE
    /\ busy = FALSE
    /\ indexedNoteIds = {}
    /\ opened = FALSE
    /\ loads = EmptyBag
    /\ sreads = [n \in NoteIds |-> 0]
    /\ stasks = << >>
    /\ ngestures = 0
    /\ ntasks = << >>
    /\ ncalls = 0
    /\ published = << >>
    /\ got = [op |-> "none", noteId |-> Null, result |-> Nothing, ok |-> TRUE]
    /\ lastCall = [op |-> "none", noteId |-> Null, value |-> Null, ok |-> TRUE]

\* getFlashcards / getQuiz: the entry parsed, null when absent or on a failure.
CacheGet(op, key, noteId) ==
    /\ ncalls < MaxCacheCalls
    /\ ncalls' = ncalls + 1
    /\ \/ got' = [op |-> op, noteId |-> noteId, result |-> Read(asyncStorage[key]),
                  ok |-> TRUE]
       \/ got' = [op |-> op, noteId |-> noteId, result |-> Nothing, ok |-> FALSE]
    /\ lastCall' = [op |-> op, noteId |-> noteId, value |-> Null, ok |-> got'.ok]
    /\ UNCHANGED <<asyncStorage, serverNotes, notes, selectedNoteId, summaryText,
                   indexedNoteIds, ntasks, published>>
    /\ UNCHANGED nonNotesVars

GetFlashcards(noteId) == CacheGet("getFlashcards", KEY_FC(noteId), noteId)

GetQuiz(noteId) == CacheGet("getQuiz", KEY_QZ(noteId), noteId)

\* setFlashcards / setQuiz: the entry written, a failure swallowed.
CacheSet(op, key, noteId, value) ==
    /\ ncalls < MaxCacheCalls
    /\ ncalls' = ncalls + 1
    /\ \/ /\ asyncStorage' = [asyncStorage EXCEPT ![key] = Stringify(value)]
          /\ lastCall' = [op |-> op, noteId |-> noteId, value |-> value, ok |-> TRUE]
       \/ /\ UNCHANGED asyncStorage
          /\ lastCall' = [op |-> op, noteId |-> noteId, value |-> value, ok |-> FALSE]
    /\ UNCHANGED <<serverNotes, notes, selectedNoteId, summaryText,
                   indexedNoteIds, ntasks, published, got>>
    /\ UNCHANGED nonNotesVars

SetFlashcards(noteId, cards) == CacheSet("setFlashcards", KEY_FC(noteId), noteId, cards)

SetQuiz(noteId, quiz) == CacheSet("setQuiz", KEY_QZ(noteId), noteId, quiz)

\* Mutant: only the flashcards entry is removed.
ClearNoteTools_flashcardsOnly(noteId) ==
    /\ ncalls < MaxCacheCalls
    /\ ncalls' = ncalls + 1
    /\ \/ /\ asyncStorage' = [asyncStorage EXCEPT ![KEY_FC(noteId)] = Null]
          /\ lastCall' = [op |-> "clearNoteTools", noteId |-> noteId, value |-> Null,
                          ok |-> TRUE]
       \/ /\ UNCHANGED asyncStorage
          /\ lastCall' = [op |-> "clearNoteTools", noteId |-> noteId, value |-> Null,
                          ok |-> FALSE]
    /\ UNCHANGED <<serverNotes, notes, selectedNoteId, summaryText,
                   indexedNoteIds, ntasks, published, got>>
    /\ UNCHANGED nonNotesVars

\* clearNoteTools: both entries removed by one multiRemove, a failure swallowed.
ClearNoteTools(noteId) ==
    /\ ncalls < MaxCacheCalls
    /\ ncalls' = ncalls + 1
    /\ \/ /\ asyncStorage' = [asyncStorage EXCEPT ![KEY_FC(noteId)] = Null,
                                                  ![KEY_QZ(noteId)] = Null]
          /\ lastCall' = [op |-> "clearNoteTools", noteId |-> noteId, value |-> Null,
                          ok |-> TRUE]
       \/ /\ UNCHANGED asyncStorage
          /\ lastCall' = [op |-> "clearNoteTools", noteId |-> noteId, value |-> Null,
                          ok |-> FALSE]
    /\ UNCHANGED <<serverNotes, notes, selectedNoteId, summaryText,
                   indexedNoteIds, ntasks, published, got>>
    /\ UNCHANGED nonNotesVars

\* The artifact cache alone, as the tool screens and the uploads screen call it.
NextCache ==
    \/ \E n \in NoteIds : GetFlashcards(n)
    \/ \E n \in NoteIds : GetQuiz(n)
    \/ \E n \in NoteIds, v \in Artifacts : SetFlashcards(n, v)
    \/ \E n \in NoteIds, v \in Artifacts : SetQuiz(n, v)
    \/ \E n \in NoteIds : ClearNoteTools(n)

----------------------------------------------------------------------------
(***************************************************************************)
(* The uploads screen (app/(tabs)/notes.tsx): the list of notes and its    *)
(* loads, the selection and the summary of the selected note, deletion,    *)
(* upload and indexing.  A change of selectedNoteId is followed by the     *)
(* effects of lines 143-153: loadNotes, rebuilt with the new selection, is *)
(* called again, and the summary of the new selection is read.  The cards  *)
(* of the notes, with their Index and Delete buttons, are rendered while   *)
(* loadingList is false, and Upload is enabled while busy is false.  A     *)
(* handler runs with the state of the render in which it was pressed,      *)
(* also after a dialog (the file picker, the Delete alert) was answered.   *)
(* The session is signed in and stays as it is while the screen is used.   *)
(***************************************************************************)
\* A loadNotes call, up to its request.  sel: selectedNoteId as its closure
\* holds it.  by: the upload that awaits it, 0 when an effect made it.  list:
\* the notes the backend answered.  first: the note it selected.
NewLoad(sel, by) ==
    [pc |-> "ln_fetch", sel |-> sel, by |-> by, list |-> {}, first |-> Null]

\* The calls under way with one more, with one gone on, and with one over.
Started(ls, t) == ls (+) SetToBag({t})
Over(ls, t) == ls (-) SetToBag({t})
Moved(ls, t, u) == Over(ls, t) (+) SetToBag({u})

\* The effects after a render in which selectedNoteId became nw: the loads with
\* the new call of loadNotes, loadingList as that call sets it, the pending
\* reads with the read of the summary of nw; all as they were when
\* selectedNoteId kept its value.  (With nothing selected the effect sets the
\* summary text to "", as the handler that unselected did.)
Reloaded(ls, nw) == IF nw # selectedNoteId THEN Started(ls, NewLoad(nw, 0)) ELSE ls

Reloading(nw) == IF nw # selectedNoteId THEN TRUE ELSE loadingList

ReadAgain(rd, nw) ==
    IF nw # selectedNoteId /\ nw # Null THEN [rd EXCEPT ![nw] = @ + 1] ELSE rd

\* The run has room for the effects of a selection of nw.
Selectable(ls, rd, nw) ==
    nw # selectedNoteId =>
        /\ BagCardinality(ls) < MaxLoads
        /\ nw # Null => rd[nw] < MaxReads

\* saved || "", for the summary stored of a note.
Saved(noteId) ==
    IF asyncStorage[SUMMARY_KEY(noteId)] = Null THEN ""
    ELSE asyncStorage[SUMMARY_KEY(noteId)]

\* The screen is mounted with a signed-in user: loadNotes() (effect of lines
\* 143-145), which begins with setLoadingList(true); nothing is selected, so
\* the summary text is set to "" again.
ScreenMount ==
    /\ ~opened
    /\ ~loading /\ user # Null
    /\ opened' = TRUE
    /\ loads' = Started(loads, NewLoad(Null, 0))
    /\ loadingList' = TRUE
    /\ UNCHANGED <<asyncStorage, serverNotes, notes, selectedNoteId,
                   summaryText, indexedNoteIds, ntasks, published, sreads,
                   stasks, summaryBusy, busy, ngestures, itasks,
                   indexingNoteId, announced>>
    /\ UNCHANGED nonScreenVars

\* await getAccessToken() and GET /api/notes, sent with or without a token.  A
\* rejected token read, a failed request, an answer that is not a success
\* (if (!res.ok) throw json) and a body that is no list reach the catch, and the
\* finally runs setLoadingList(false).  Else setNotes(uploadsOnly), with the
\* notes of the backend, or with none when the body does not parse
\* (res.json().catch(() => [])), and hydrateIndexedFlags is issued.
LoadNotesResponse(t) ==
    /\ t.pc = "ln_fetch"
    /\ \/ /\ loads' = Over(loads, t)
          /\ loadingList' = FALSE
          /\ UNCHANGED notes
       \/ \E s \in LoadStatuses, list \in {serverNotes, {}} :
            IF ResOk(s)
            THEN /\ notes' = list
                 /\ loads' = Moved(loads, t, [t EXCEPT !.pc = "ln_hydrate",
                                                       !.list = list])
                 /\ UNCHANGED loadingList
            ELSE /\ loads' = Over(loads, t)
                 /\ loadingList' = FALSE
                 /\ UNCHANGED notes
    /\ UNCHANGED <<asyncStorage, serverNotes, selectedNoteId, summaryText,
                   indexedNoteIds, ntasks, published, sreads, stasks,
                   summaryBusy, busy, ngestures, itasks, indexingNoteId,
                   announced>>
    /\ UNCHANGED nonMountVars

\* The flags hydrateIndexedFlags finds for a list of notes.
Hydrated(list) == {n \in list : asyncStorage[INDEXED_KEY(n)] = "true"}

\* await hydrateIndexedFlags(uploadsOnly): the set replaced, a failure swallowed;
\* then, when the list has a note and the closure holds no selection, the first
\* note is selected and its summary read; else the call ends, and the finally
\* runs setLoadingList(false).
LoadNotesHydrate(t) ==
    /\ t.pc = "ln_hydrate"
    /\ \/ indexedNoteIds' = Hydrated(t.list)
       \/ UNCHANGED indexedNoteIds
    /\ IF t.list # {} /\ t.sel = Null
       THEN \E first \in t.list :
              LET ls == Moved(loads, t, [t EXCEPT !.pc = "ln_summary",
                                                  !.first = first])
              IN /\ Selectable(ls, sreads, first)
                 /\ selectedNoteId' = first
                 /\ loads' = Reloaded(ls, first)
                 /\ loadingList' = Reloading(first)
                 /\ sreads' = ReadAgain(sreads, first)
       ELSE /\ loads' = Over(loads, t)
            /\ loadingList' = FALSE
            /\ UNCHANGED <<selectedNoteId, sreads>>
    /\ UNCHANGED <<asyncStorage, serverNotes, notes, summaryText, ntasks,
                   published, stasks, summaryBusy, busy, ngestures, itasks,
                   indexingNoteId, announced>>
    /\ UNCHANGED nonMountVars

\* await loadSummaryFromStorage(first): setSummaryText(saved || ""), a failure
\* swallowed; the call ends, and the finally runs setLoadingList(false).
LoadNotesSummary(t) ==
    /\ t.pc = "ln_summary"
    /\ \/ summaryText' = Saved(t.first)
       \/ UNCHANGED summaryText
    /\ loads' = Over(loads, t)
    /\ loadingList' = FALSE
    /\ UNCHANGED <<asyncStorage, serverNotes, notes, selectedNoteId,
                   indexedNoteIds, ntasks, published, sreads, stasks,
                   summaryBusy, busy, ngestures, itasks, indexingNoteId,
                   announced>>
    /\ UNCHANGED nonMountVars

\* A loadSummaryFromStorage(noteId) that nothing awaits (effect of lines 147-153,
\* a card's onSelect) answers: setSummaryText(saved || ""), a failure swallowed.
ReadSummary(noteId) ==
    /\ sreads[noteId] > 0
    /\ sreads' = [sreads EXCEPT ![noteId] = @ - 1]
    /\ \/ summaryText' = Saved(noteId)
       \/ UNCHANGED summaryText
    /\ UNCHANGED <<asyncStorage, serverNotes, notes, selectedNoteId,
                   indexedNoteIds, ntasks, published, loads, stasks,
                   summaryBusy, loadingList, busy, ngestures, itasks,
                   indexingNoteId, announced>>
    /\ UNCHANGED nonMountVars

\* A card, rendered while loadingList is false, is pressed (onSelect, lines
\* 498-501): setSelectedNoteId(item.id); loadSummaryFromStorage(item.id).
SelectNote(noteId) ==
    /\ ~loadingList
    /\ noteId \in notes
    /\ ngestures < MaxGestures
    /\ sreads[noteId] < MaxReads
    /\ LET rd == [sreads EXCEPT ![noteId] = @ + 1] IN
       /\ Selectable(loads, rd, noteId)
       /\ sreads' = ReadAgain(rd, noteId)
    /\ ngestures' = ngestures + 1
    /\ selectedNoteId' = noteId
    /\ loads' = Reloaded(loads, noteId)
    /\ loadingList' = Reloading(noteId)
    /\ UNCHANGED <<asyncStorage, serverNotes, notes, summaryText,
                   indexedNoteIds, ntasks, published, stasks, summaryBusy,
                   busy, itasks, indexingNoteId, announced>>
    /\ UNCHANGED nonMountVars

\* The text of a response, as (json?.summary ?? "").trim() leaves it.
RawSummaries == {Null, " s1 ", "s1"}
Trim(raw) == IF raw = Null THEN "" ELSE IF raw = " s1 " THEN "s1" ELSE raw

\* A generateSummary call.  noteId: selectedNoteId as its closure holds it.
\* text: the summary it received.
NewSummary(noteId) ==
    [pc |-> "gs_token", noteId |-> noteId, text |-> "", out |-> "pending"]

\* Generate is pressed (enabled for an indexed selected note, while no summary is
\* shown or under way): generateSummary() up to await getAccessToken().
CallGenerateSummary ==
    /\ ngestures < MaxGestures
    /\ ngestures' = ngestures + 1
    /\ selectedNoteId \in notes
    /\ selectedNoteId \in indexedNoteIds
    /\ ~summaryBusy
    /\ summaryText = ""
    /\ Len(stasks) < MaxSummaries
    /\ summaryBusy' = TRUE
    /\ summaryText' = ""
    /\ stasks' = Append(stasks, NewSummary(selectedNoteId))
    /\ UNCHANGED <<asyncStorage, serverNotes, notes, selectedNoteId,
                   indexedNoteIds, ntasks, published, loads, sreads,
                   loadingList, busy, itasks, indexingNoteId, announced>>
    /\ UNCHANGED nonMountVars

\* if (!token) { Alert.alert(...); return }; a rejection reaches the catch;
\* finally { setSummaryBusy(false) }.
GenerateSummaryToken(i) ==
    /\ stasks[i].pc = "gs_token"
    /\ \/ \E token \in {Null, LoginAccess} :
            /\ stasks' = [stasks EXCEPT ![i] =
                  IF token = Null
                  THEN [@ EXCEPT !.pc = "done", !.out = "no token"]
                  ELSE [@ EXCEPT !.pc = "gs_fetch"]]
            /\ summaryBusy' = IF token = Null THEN FALSE ELSE summaryBusy
       \/ /\ stasks' = [stasks EXCEPT ![i] = [@ EXCEPT !.pc = "done", !.out = "error"]]
          /\ summaryBusy' = FALSE
    /\ UNCHANGED <<asyncStorage, serverNotes, notes, selectedNoteId,
                   summaryText, indexedNoteIds, ntasks, published, loads,
                   sreads, loadingList, busy, ngestures, itasks,
                   indexingNoteId, announced>>
    /\ UNCHANGED nonMountVars

\* POST /api/notes/:id/summary is answered, or fails: on success
\* setSummaryText(text), and the write of the summary is issued.
GenerateSummaryResponse(i) ==
    /\ stasks[i].pc = "gs_fetch"
    /\ LET t == stasks[i] IN
       \/ /\ stasks' = [stasks EXCEPT ![i] = [t EXCEPT !.pc = "done", !.out = "error"]]
          /\ summaryBusy' = FALSE
          /\ UNCHANGED summaryText
       \/ \E s \in SummaryStatuses, raw \in RawSummaries :
            IF ResOk(s)
            THEN /\ summaryText' = Trim(raw)
                 /\ stasks' = [stasks EXCEPT ![i] =
                                  [t EXCEPT !.pc = "gs_save", !.text = Trim(raw)]]
                 /\ UNCHANGED summaryBusy
            ELSE /\ stasks' = [stasks EXCEPT ![i] =
                                  [t EXCEPT !.pc = "done", !.out = "failed"]]
                 /\ summaryBusy' = FALSE
                 /\ UNCHANGED summaryText
    /\ UNCHANGED <<asyncStorage, serverNotes, notes, selectedNoteId,
                   indexedNoteIds, ntasks, published, loads, sreads,
                   loadingList, busy, ngestures, itasks, indexingNoteId,
                   announced>>
    /\ UNCHANGED nonMountVars

\* await saveSummaryToStorage(selectedNoteId, text): the summary written at the
\* key of the note the call was started for, a failure swallowed; the call ends.
SaveSummary(i) ==
    /\ stasks[i].pc = "gs_save"
    /\ LET t == stasks[i] IN
       \/ asyncStorage' = [asyncStorage EXCEPT ![SUMMARY_KEY(t.noteId)] = t.text]
       \/ UNCHANGED asyncStorage
    /\ stasks' = [stasks EXCEPT ![i] = [@ EXCEPT !.pc = "done", !.out = "ok"]]
    /\ summaryBusy' = FALSE
    /\ UNCHANGED <<serverNotes, notes, selectedNoteId, summaryText,
                   indexedNoteIds, ntasks, published, loads, sreads,
                   loadingList, busy, ngestures, itasks, indexingNoteId,
                   announced>>
    /\ UNCHANGED nonMountVars

\* A press of Delete and the deleteNote call it leads to.  sel, list:
\* selectedNoteId and notes of the render of the press, which the closure of
\* deleteNote holds.  next: the note it selects afterwards.  out: how it ended.
NewDelete(noteId, pc) ==
    [pc |-> pc, noteId |-> noteId, sel |-> selectedNoteId, list |-> notes,
     next |-> Null, out |-> IF pc = "done" THEN "canceled" ELSE "pending"]

\* Delete is pressed on a card, rendered while loadingList is false:
\* confirmDelete(noteId).  On the web window.confirm answers before the handler
\* returns: deleteNote(noteId) up to await getAccessToken(), or nothing.
\* Elsewhere Alert.alert shows its dialog and the handler returns.
confirmDelete(noteId) ==
    /\ ~loadingList
    /\ ngestures < MaxGestures
    /\ ngestures' = ngestures + 1
    /\ noteId \in notes
    /\ Len(ntasks) < MaxDeletes
    /\ IF platform = "web"
       THEN \E pc \in {"dn_token", "done"} :
              ntasks' = Append(ntasks, NewDelete(noteId, pc))
       ELSE ntasks' = Append(ntasks, NewDelete(noteId, "dn_alert"))
    /\ UNCHANGED <<asyncStorage, serverNotes, notes, selectedNoteId,
                   summaryText, indexedNoteIds, published, loads, sreads,
                   stasks, summaryBusy, loadingList, busy, itasks,
                   indexingNoteId, announced>>
    /\ UNCHANGED nonMountVars

\* The dialog is answered, whatever the screen shows by then.  Delete:
\* onPress: () => deleteNote(noteId), up to await getAccessToken().  Cancel, or
\* the dialog dismissed: nothing runs.
CallDeleteNote(i) ==
    /\ ntasks[i].pc = "dn_alert"
    /\ \/ ntasks' = [ntasks EXCEPT ![i] = [@ EXCEPT !.pc = "dn_token"]]
       \/ ntasks' = [ntasks EXCEPT ![i] = [@ EXCEPT !.pc = "done", !.out = "canceled"]]
    /\ UNCHANGED <<asyncStorage, serverNotes, notes, selectedNoteId,
                   summaryText, indexedNoteIds, published, loads, sreads,
                   stasks, summaryBusy, loadingList, busy, ngestures, itasks,
                   indexingNoteId, announced>>
    /\ UNCHANGED nonMountVars

\* if (!token) return; a rejection reaches the catch; else the DELETE request
\* goes out.
DeleteNoteToken(i) ==
    /\ ntasks[i].pc = "dn_token"
    /\ \/ \E token \in {Null, LoginAccess} :
            ntasks' = [ntasks EXCEPT ![i] =
               IF token = Null
               THEN [@ EXCEPT !.pc = "done", !.out = "no token"]
               ELSE [@ EXCEPT !.pc = "dn_fetch"]]
       \/ ntasks' = [ntasks EXCEPT ![i] = [@ EXCEPT !.pc = "done", !.out = "error"]]
    /\ UNCHANGED <<asyncStorage, serverNotes, notes, selectedNoteId,
                   summaryText, indexedNoteIds, published, loads, sreads,
                   stasks, summaryBusy, loadingList, busy, ngestures, itasks,
                   indexingNoteId, announced>>
    /\ UNCHANGED nonMountVars

\* The backend answers (or the request fails): on success the note is gone from
\* the backend and from the list, and the summary removal is issued.
DeleteNoteResponse(i) ==
    /\ ntasks[i].pc = "dn_fetch"
    /\ LET t == ntasks[i] IN
       \/ /\ ntasks' = [ntasks EXCEPT ![i] = [t EXCEPT !.pc = "done", !.out = "error"]]
          /\ UNCHANGED <<serverNotes, notes>>
       \/ \E s \in DeleteStatuses :
            /\ (s = 200) => t.noteId \in serverNotes
            /\ (s = 404) => t.noteId \notin serverNotes
            /\ IF ResOk(s)
               THEN /\ serverNotes' = serverNotes \ {t.noteId}
                    /\ notes' = notes \ {t.noteId}
                    /\ ntasks' = [ntasks EXCEPT ![i] = [t EXCEPT !.pc = "dn_summary"]]
               ELSE /\ ntasks' = [ntasks EXCEPT ![i] =
                                    [t EXCEPT !.pc = "done", !.out = "failed"]]
                    /\ UNCHANGED <<serverNotes, notes>>
    /\ UNCHANGED <<asyncStorage, selectedNoteId, summaryText, indexedNoteIds,
                   published, loads, sreads, stasks, summaryBusy, loadingList,
                   busy, ngestures, itasks, indexingNoteId, announced>>
    /\ UNCHANGED nonMountVars

\* await AsyncStorage.removeItem(SUMMARY_KEY(noteId)): a failure reaches the catch.
DeleteNoteSummaryIO(i) ==
    /\ ntasks[i].pc = "dn_summary"
    /\ \/ /\ asyncStorage' = [asyncStorage EXCEPT ![SUMMARY_KEY(ntasks[i].noteId)] = Null]
          /\ ntasks' = [ntasks EXCEPT ![i] = [@ EXCEPT !.pc = "dn_indexed"]]
       \/ /\ ntasks' = [ntasks EXCEPT ![i] = [@ EXCEPT !.pc = "done", !.out = "error"]]
          /\ UNCHANGED asyncStorage
    /\ UNCHANGED <<serverNotes, notes, selectedNoteId, summaryText,
                   indexedNoteIds, published, loads, sreads, stasks,
                   summaryBusy, loadingList, busy, ngestures, itasks,
                   indexingNoteId, announced>>
    /\ UNCHANGED nonMountVars

\* clearIndexedFlag: the flag removed and the set updated, a failure swallowed.
DeleteNoteIndexedIO(i) ==
    /\ ntasks[i].pc = "dn_indexed"
    /\ \/ /\ asyncStorage' = [asyncStorage EXCEPT ![INDEXED_KEY(ntasks[i].noteId)] = Null]
          /\ indexedNoteIds' = indexedNoteIds \ {ntasks[i].noteId}
       \/ UNCHANGED <<asyncStorage, indexedNoteIds>>
    /\ ntasks' = [ntasks EXCEPT ![i] = [@ EXCEPT !.pc = "dn_emit"]]
    /\ UNCHANGED <<serverNotes, notes, selectedNoteId, summaryText, published,
                   loads, sreads, stasks, summaryBusy, loadingList, busy,
                   ngestures, itasks, indexingNoteId, announced>>
    /\ UNCHANGED nonMountVars

\* emit("notes:changed", { noteId: undefined }), then the selection moves on when
\* the deleted note was the selected one: to another note of the list, whose
\* summary is read, or to none; the effects of the new selection follow.
DeleteNoteAnnounce(i) ==
    /\ ntasks[i].pc = "dn_emit"
    /\ LET t == ntasks[i] IN
       /\ published' = Append(published,
             [payload |-> Null, deleted |-> t.noteId,
              fc |-> asyncStorage[KEY_FC(t.noteId)],
              qz |-> asyncStorage[KEY_QZ(t.noteId)]])
       /\ IF t.sel = t.noteId
          THEN IF t.list \ {t.noteId} # {}
               THEN \E nx \in t.list \ {t.noteId} :
                      /\ Selectable(loads, sreads, nx)
                      /\ selectedNoteId' = nx
                      /\ loads' = Reloaded(loads, nx)
                      /\ loadingList' = Reloading(nx)
                      /\ sreads' = ReadAgain(sreads, nx)
                      /\ ntasks' = [ntasks EXCEPT ![i] =
                                      [t EXCEPT !.pc = "dn_load", !.next = nx]]
                      /\ UNCHANGED summaryText
               ELSE /\ Selectable(loads, sreads, Null)
                    /\ selectedNoteId' = Null
                    /\ loads' = Reloaded(loads, Null)
                    /\ loadingList' = Reloading(Null)
                    /\ summaryText' = ""
                    /\ ntasks' = [ntasks EXCEPT ![i] =
                                    [t EXCEPT !.pc = "done", !.out = "ok"]]
                    /\ UNCHANGED sreads
          ELSE /\ ntasks' = [ntasks EXCEPT ![i] = [t EXCEPT !.pc = "done", !.out = "ok"]]
               /\ UNCHANGED <<selectedNoteId, summaryText, loads, loadingList, sreads>>
    /\ UNCHANGED <<asyncStorage, serverNotes, notes, indexedNoteIds, stasks,
                   summaryBusy, busy, ngestures, itasks, indexingNoteId,
                   announced>>
    /\ UNCHANGED nonMountVars

\* await loadSummaryFromStorage(next.id): setSummaryText(saved || ""), a failure
\* swallowed.
DeleteNoteLoadSummary(i) ==
    /\ ntasks[i].pc = "dn_load"
    /\ \/ summaryText' = Saved(ntasks[i].next)
       \/ UNCHANGED summaryText
    /\ ntasks' = [ntasks EXCEPT ![i] = [@ EXCEPT !.pc = "done", !.out = "ok"]]
    /\ UNCHANGED <<asyncStorage, serverNotes, notes, selectedNoteId,
                   indexedNoteIds, published, loads, sreads, stasks,
                   summaryBusy, loadingList, busy, ngestures, itasks,
                   indexingNoteId, announced>>
    /\ UNCHANGED nonMountVars

\* An upload or an indexing (pickAndUpload with autoIndexAfterUpload,
\* indexEmbeddings).  The Index button is hidden only on the note being indexed
\* and on indexed notes, so indexings of different notes can overlap.  auto:
\* pickAndUpload with autoIndexAfterUpload rather than indexEmbeddings.  noteId:
\* the note indexed, the uploaded one when auto.  sel: selectedNoteId as the
\* closure of its loadNotes holds it.  wrote: whether its write of the pointer
\* took effect.  ours: the notes whose summary keys getAllKeys listed.  out: how
\* it ended.
NewIndexing(auto, noteId) ==
    [auto |-> auto, noteId |-> noteId, sel |-> selectedNoteId,
     pc |-> IF auto THEN "up_pick" ELSE "ix_token",
     ours |-> {}, wrote |-> FALSE, out |-> "pending"]

InitIndex ==
    /\ itasks = << >>
    /\ indexingNoteId = Null
    /\ announced = << >>

\* The loadNotes call that upload i awaits is over.
Loaded(i) == \A t \in BagToSet(loads) : t.by # i

\* Index is pressed on the card of a note, rendered while loadingList is false:
\* indexEmbeddings(noteId) up to await getAccessToken().
CallIndexEmbeddings(noteId) ==
    /\ ~loadingList
    /\ ngestures < MaxGestures
    /\ ngestures' = ngestures + 1
    /\ noteId \in notes
    /\ noteId \notin indexedNoteIds
    /\ indexingNoteId # noteId
    /\ Len(itasks) < MaxIndexings
    /\ itasks' = Append(itasks, NewIndexing(FALSE, noteId))
    /\ UNCHANGED <<asyncStorage, serverNotes, notes, selectedNoteId,
                   summaryText, indexedNoteIds, ntasks, published, loads,
                   sreads, stasks, summaryBusy, loadingList, busy,
                   indexingNoteId, announced>>
    /\ UNCHANGED nonMountVars

\* Upload, enabled while busy is false, is pressed on the mounted screen:
\* pickAndUpload() up to await DocumentPicker.getDocumentAsync(...).
CallPickAndUpload ==
    /\ ngestures < MaxGestures
    /\ ngestures' = ngestures + 1
    /\ opened
    /\ ~busy
    /\ Len(itasks) < MaxIndexings
    /\ itasks' = Append(itasks, NewIndexing(TRUE, Null))
    /\ UNCHANGED <<asyncStorage, serverNotes, notes, selectedNoteId,
                   summaryText, indexedNoteIds, ntasks, published, loads,
                   sreads, stasks, summaryBusy, loadingList, busy,
                   indexingNoteId, announced>>
    /\ UNCHANGED nonMountVars

\* The picker answers: if (picked.canceled) return; if (!asset?.uri) {
\* Alert.alert(...); return }; a rejection reaches the catch; each of them ends
\* the call, and the finally runs setBusy(false).  With a file picked, a
\* gesture, the call goes on to await getAccessToken().
UploadPick(i) ==
    /\ itasks[i].pc = "up_pick"
    /\ \/ /\ ngestures < MaxGestures
          /\ ngestures' = ngestures + 1
          /\ itasks' = [itasks EXCEPT ![i] = [@ EXCEPT !.pc = "up_token"]]
          /\ UNCHANGED busy
       \/ \E out \in {"canceled", "no file", "error"} :
            /\ itasks' = [itasks EXCEPT ![i] = [@ EXCEPT !.pc = "done", !.out = out]]
            /\ busy' = FALSE
            /\ UNCHANGED ngestures
    /\ UNCHANGED <<asyncStorage, serverNotes, notes, selectedNoteId,
                   summaryText, indexedNoteIds, ntasks, published, loads,
                   sreads, stasks, summaryBusy, loadingList, indexingNoteId,
                   announced>>
    /\ UNCHANGED nonMountVars

\* if (!token) { Alert.alert(...); return }; a rejection reaches the catch; the
\* finally runs setBusy(false).  Else setBusy(true), and the form is built: on the
\* web after await webFileFromUri(...), elsewhere at once, and the upload goes
\* out.
UploadToken(i) ==
    /\ itasks[i].pc = "up_token"
    /\ \/ \E token \in {Null, LoginAccess} :
            /\ itasks' = [itasks EXCEPT ![i] =
                  IF token = Null
                  THEN [@ EXCEPT !.pc = "done", !.out = "no token"]
                  ELSE [@ EXCEPT !.pc = IF platform = "web" THEN "up_file"
                                       ELSE "up_fetch"]]
            /\ busy' = (token # Null)
       \/ /\ itasks' = [itasks EXCEPT ![i] = [@ EXCEPT !.pc = "done", !.out = "error"]]
          /\ busy' = FALSE
    /\ UNCHANGED <<asyncStorage, serverNotes, notes, selectedNoteId,
                   summaryText, indexedNoteIds, ntasks, published, loads,
                   sreads, stasks, summaryBusy, loadingList, ngestures,
                   indexingNoteId, announced>>
    /\ UNCHANGED nonMountVars

\* On the web, await webFileFromUri(asset.uri, ...): the file read and the
\* upload sent, or a failure, which reaches the catch; the finally runs
\* setBusy(false).
UploadWebFile(i) ==
    /\ itasks[i].pc = "up_file"
    /\ \/ /\ itasks' = [itasks EXCEPT ![i] = [@ EXCEPT !.pc = "up_fetch"]]
          /\ UNCHANGED busy
       \/ /\ itasks' = [itasks EXCEPT ![i] = [@ EXCEPT !.pc = "done", !.out = "error"]]
          /\ busy' = FALSE
    /\ UNCHANGED <<asyncStorage, serverNotes, notes, selectedNoteId,
                   summaryText, indexedNoteIds, ntasks, published, loads,
                   sreads, stasks, summaryBusy, loadingList, ngestures,
                   indexingNoteId, announced>>
    /\ UNCHANGED nonMountVars

\* POST /api/uploads is answered, or fails: on success the backend holds the new
\* note (the answer may name none), and loadNotes() of the render of the press is
\* called; a failure ends the call, and the finally runs setBusy(false).
UploadResponse(i) ==
    /\ itasks[i].pc = "up_fetch"
    /\ LET t == itasks[i] IN
       \/ /\ itasks' = [itasks EXCEPT ![i] = [t EXCEPT !.pc = "done", !.out = "error"]]
          /\ busy' = FALSE
          /\ UNCHANGED <<serverNotes, loads, loadingList>>
       \/ \E s \in UploadStatuses :
            IF ResOk(s)
            THEN /\ BagCardinality(loads) < MaxLoads
                 /\ \E id \in (NoteIds \ serverNotes) \cup {Null} :
                      /\ serverNotes' = IF id = Null THEN serverNotes
                                        ELSE serverNotes \cup {id}
                      /\ itasks' = [itasks EXCEPT ![i] =
                            [t EXCEPT !.pc = "up_load", !.noteId = id]]
                 /\ loads' = Started(loads, NewLoad(t.sel, i))
                 /\ loadingList' = TRUE
                 /\ UNCHANGED busy
            ELSE /\ itasks' = [itasks EXCEPT ![i] =
                                  [t EXCEPT !.pc = "done", !.out = "failed"]]
                 /\ busy' = FALSE
                 /\ UNCHANGED <<serverNotes, loads, loadingList>>
    /\ UNCHANGED <<asyncStorage, notes, selectedNoteId, summaryText,
                   indexedNoteIds, ntasks, published, sreads, stasks,
                   summaryBusy, ngestures, indexingNoteId, announced>>
    /\ UNCHANGED nonMountVars

\* await loadNotes() is over: without a note id the call ends, and the finally
\* runs setBusy(false); else setSelectedNoteId(noteId), with the effects of the
\* new selection, and clearAllSummaries() up to await AsyncStorage.getAllKeys().
UploadLoaded(i) ==
    /\ itasks[i].pc = "up_load"
    /\ Loaded(i)
    /\ LET t == itasks[i] IN
       IF t.noteId = Null
       THEN /\ itasks' = [itasks EXCEPT ![i] = [t EXCEPT !.pc = "done", !.out = "no id"]]
            /\ busy' = FALSE
            /\ UNCHANGED <<selectedNoteId, loads, loadingList, sreads>>
       ELSE /\ Selectable(loads, sreads, t.noteId)
            /\ selectedNoteId' = t.noteId
            /\ loads' = Reloaded(loads, t.noteId)
            /\ loadingList' = Reloading(t.noteId)
            /\ sreads' = ReadAgain(sreads, t.noteId)
            /\ itasks' = [itasks EXCEPT ![i] = [t EXCEPT !.pc = "up_keys"]]
            /\ UNCHANGED busy
    /\ UNCHANGED <<asyncStorage, serverNotes, notes, summaryText,
                   indexedNoteIds, ntasks, published, stasks, summaryBusy,
                   ngestures, indexingNoteId, announced>>
    /\ UNCHANGED nonMountVars

\* keys.filter((k) => k.startsWith("note_summary_")), as the notes of the keys.
SummaryKeys == {n \in NoteIds : asyncStorage[SUMMARY_KEY(n)] # Null}

\* AsyncStorage after multiRemove of the summary keys of the notes ours.
WithoutSummaries(ours) ==
    [k \in StorageKeys |->
        IF \E n \in ours : k = SUMMARY_KEY(n) THEN Null ELSE asyncStorage[k]]

\* getAllKeys answers: with summary keys listed, multiRemove(ours) is issued;
\* with none, or on a failure (swallowed), clearAllSummaries is over and
\* autoIndexAfterUpload(noteId, token) runs up to the await of its request.
UploadKeys(i) ==
    /\ itasks[i].pc = "up_keys"
    /\ LET t == itasks[i] IN
       \E ok \in BOOLEAN :
          IF ok /\ SummaryKeys # {}
          THEN /\ itasks' = [itasks EXCEPT ![i] =
                                [t EXCEPT !.pc = "up_clear", !.ours = SummaryKeys]]
               /\ UNCHANGED indexingNoteId
          ELSE /\ itasks' = [itasks EXCEPT ![i] = [t EXCEPT !.pc = "ix_fetch"]]
               /\ indexingNoteId' = t.noteId
    /\ UNCHANGED <<asyncStorage, serverNotes, notes, selectedNoteId,
                   summaryText, indexedNoteIds, ntasks, published, loads,
                   sreads, stasks, summaryBusy, loadingList, busy, ngestures,
                   announced>>
    /\ UNCHANGED nonMountVars

\* await AsyncStorage.multiRemove(ours): the listed summaries removed, a failure
\* swallowed; then autoIndexAfterUpload(noteId, token) runs up to the await of
\* its request.
UploadClear(i) ==
    /\ itasks[i].pc = "up_clear"
    /\ \/ asyncStorage' = WithoutSummaries(itasks[i].ours)
       \/ UNCHANGED asyncStorage
    /\ itasks' = [itasks EXCEPT ![i] = [@ EXCEPT !.pc = "ix_fetch"]]
    /\ indexingNoteId' = itasks[i].noteId
    /\ UNCHANGED <<serverNotes, notes, selectedNoteId, summaryText,
                   indexedNoteIds, ntasks, published, loads, sreads, stasks,
                   summaryBusy, loadingList, busy, ngestures, announced>>
    /\ UNCHANGED nonMountVars

\* const token = await getAccessToken(); if (!token) return; a rejection reaches
\* the catch.
IndexToken(i) ==
    /\ itasks[i].pc = "ix_token"
    /\ \/ \E token \in {Null, LoginAccess} :
            /\ itasks' = [itasks EXCEPT ![i] =
                  IF token = Null
                  THEN [@ EXCEPT !.pc = "done", !.out = "no token"]
                  ELSE [@ EXCEPT !.pc = "ix_fetch"]]
            /\ indexingNoteId' = IF token = Null THEN Null ELSE itasks[i].noteId
       \/ /\ itasks' = [itasks EXCEPT ![i] = [@ EXCEPT !.pc = "done", !.out = "error"]]
          /\ indexingNoteId' = Null
    /\ UNCHANGED <<asyncStorage, serverNotes, notes, selectedNoteId,
                   summaryText, indexedNoteIds, ntasks, published, loads,
                   sreads, stasks, summaryBusy, loadingList, busy, ngestures,
                   announced>>
    /\ UNCHANGED nonMountVars

\* The backend answers the indexing request, or the request fails:
\* if (!res.ok) { Alert.alert(...); return }.  A failure ends the call:
\* finally { setIndexingNoteId(null) }, and, back in pickAndUpload,
\* finally { setBusy(false) }, also while another upload is under way.
IndexResponse(i) ==
    /\ itasks[i].pc = "ix_fetch"
    /\ \/ /\ itasks' = [itasks EXCEPT ![i] = [@ EXCEPT !.pc = "done", !.out = "error"]]
          /\ indexingNoteId' = Null
          /\ busy' = (~itasks[i].auto /\ busy)
       \/ \E s \in IndexStatuses :
            /\ itasks' = [itasks EXCEPT ![i] =
                  IF ResOk(s)
                  THEN [@ EXCEPT !.pc = "ix_flag"]
                  ELSE [@ EXCEPT !.pc = "done", !.out = "failed"]]
            /\ indexingNoteId' = IF ResOk(s) THEN indexingNoteId ELSE Null
            /\ busy' = IF ResOk(s) THEN busy ELSE ~itasks[i].auto /\ busy
    /\ UNCHANGED <<asyncStorage, serverNotes, notes, selectedNoteId,
                   summaryText, indexedNoteIds, ntasks, published, loads,
                   sreads, stasks, summaryBusy, loadingList, ngestures,
                   announced>>
    /\ UNCHANGED nonMountVars

\* await setIndexedTrue(noteId): the flag stored and the set updated, a failure
\* swallowed; autoIndexAfterUpload goes on with loadNotes().
IndexFlagIO(i) ==
    /\ itasks[i].pc = "ix_flag"
    /\ LET t == itasks[i] IN
       /\ \/ /\ asyncStorage' = [asyncStorage EXCEPT ![INDEXED_KEY(t.noteId)] = "true"]
             /\ indexedNoteIds' = indexedNoteIds \cup {t.noteId}
          \/ UNCHANGED <<asyncStorage, indexedNoteIds>>
       /\ IF t.auto
          THEN /\ BagCardinality(loads) < MaxLoads
               /\ loads' = Started(loads, NewLoad(t.sel, i))
               /\ loadingList' = TRUE
               /\ itasks' = [itasks EXCEPT ![i] = [t EXCEPT !.pc = "ix_load"]]
          ELSE /\ itasks' = [itasks EXCEPT ![i] = [t EXCEPT !.pc = "ix_pointer"]]
               /\ UNCHANGED <<loads, loadingList>>
    /\ UNCHANGED <<serverNotes, notes, selectedNoteId, summaryText, ntasks,
                   published, sreads, stasks, summaryBusy, busy, ngestures,
                   indexingNoteId, announced>>
    /\ UNCHANGED nonMountVars

\* await loadNotes(), in autoIndexAfterUpload, is over: the write of the pointer
\* is issued.
IndexLoadNotes(i) ==
    /\ itasks[i].pc = "ix_load"
    /\ Loaded(i)
    /\ itasks' = [itasks EXCEPT ![i] = [@ EXCEPT !.pc = "ix_pointer"]]
    /\ UNCHANGED <<asyncStorage, serverNotes, notes, selectedNoteId,
                   summaryText, indexedNoteIds, ntasks, published, loads,
                   sreads, stasks, summaryBusy, loadingList, busy, ngestures,
                   indexingNoteId, announced>>
    /\ UNCHANGED nonMountVars

\* await AsyncStorage.setItem(LAST_INDEXED_KEY, noteId).catch(() => {}): the
\* pointer stored, or the failure swallowed.
IndexPointerIO(i) ==
    /\ itasks[i].pc = "ix_pointer"
    /\ \/ /\ asyncStorage' = [asyncStorage EXCEPT ![LAST_INDEXED_KEY] = itasks[i].noteId]
          /\ itasks' = [itasks EXCEPT ![i] = [@ EXCEPT !.pc = "ix_emit", !.wrote = TRUE]]
       \/ /\ itasks' = [itasks EXCEPT ![i] = [@ EXCEPT !.pc = "ix_emit"]]
          /\ UNCHANGED asyncStorage
    /\ UNCHANGED <<serverNotes, notes, selectedNoteId, summaryText,
                   indexedNoteIds, ntasks, published, loads, sreads, stasks,
                   summaryBusy, loadingList, busy, ngestures, indexingNoteId,
                   announced>>
    /\ UNCHANGED nonMountVars

\* emit("notes:changed", { noteId: noteId }), and the call ends:
\* finally { setIndexingNoteId(null) }, and, back in pickAndUpload,
\* finally { setBusy(false) }.
IndexAnnounce(i) ==
    /\ itasks[i].pc = "ix_emit"
    /\ announced' = Append(announced,
          [noteId |-> itasks[i].noteId, by |-> i,
           pointer |-> asyncStorage[LAST_INDEXED_KEY], seen |-> "unread"])
    /\ itasks' = [itasks EXCEPT ![i] = [@ EXCEPT !.pc = "done", !.out = "ok"]]
    /\ indexingNoteId' = Null
    /\ busy' = (~itasks[i].auto /\ busy)
    /\ UNCHANGED <<asyncStorage, serverNotes, notes, selectedNoteId,
                   summaryText, indexedNoteIds, ntasks, published, loads,
                   sreads, stasks, summaryBusy, loadingList, ngestures>>
    /\ UNCHANGED nonMountVars

NextNotes ==
    \/ ScreenMount
    \/ \E t \in BagToSet(loads) : LoadNotesResponse(t)
    \/ \E t \in BagToSet(loads) : LoadNotesHydrate(t)
    \/ \E t \in BagToSet(loads) : LoadNotesSummary(t)
    \/ \E n \in NoteIds : ReadSummary(n)
    \/ \E n \in NoteIds : SelectNote(n)
    \/ CallGenerateSummary
    \/ \E i \in 1..Len(stasks) : GenerateSummaryToken(i)
    \/ \E i \in 1..Len(stasks) : GenerateSummaryResponse(i)
    \/ \E i \in 1..Len(stasks) : SaveSummary(i)
    \/ \E n \in NoteIds : confirmDelete(n)
    \/ \E i \in 1..Len(ntasks) : CallDeleteNote(i)
    \/ \E i \in 1..Len(ntasks) : DeleteNoteToken(i)
    \/ \E i \in 1..Len(ntasks) : DeleteNoteResponse(i)
    \/ \E i \in 1..Len(ntasks) : DeleteNoteSummaryIO(i)
    \/ \E i \in 1..Len(ntasks) : DeleteNoteIndexedIO(i)
    \/ \E i \in 1..Len(ntasks) : DeleteNoteAnnounce(i)
    \/ \E i \in 1..Len(ntasks) : DeleteNoteLoadSummary(i)
    \/ \E n \in NoteIds : CallIndexEmbeddings(n)
    \/ CallPickAndUpload
    \/ \E i \in 1..Len(itasks) : UploadPick(i)
    \/ \E i \in 1..Len(itasks) : UploadToken(i)
    \/ \E i \in 1..Len(itasks) : UploadWebFile(i)
    \/ \E i \in 1..Len(itasks) : UploadResponse(i)
    \/ \E i \in 1..Len(itasks) : UploadLoaded(i)
    \/ \E i \in 1..Len(itasks) : UploadKeys(i)
    \/ \E i \in 1..Len(itasks) : UploadClear(i)
    \/ \E i \in 1..Len(itasks) : IndexToken(i)
    \/ \E i \in 1..Len(itasks) : IndexResponse(i)
    \/ \E i \in 1..Len(itasks) : IndexFlagIO(i)
    \/ \E i \in 1..Len(itasks) : IndexLoadNotes(i)
    \/ \E i \in 1..Len(itasks) : IndexPointerIO(i)
    \/ \E i \in 1..Len(itasks) : IndexAnnounce(i)

----------------------------------------------------------------------------
(***************************************************************************)
(* The last-indexed pointer across the screens: the uploads screen writes  *)
(* it when an indexing succeeds, the home screen (app/(tabs)/index.tsx)    *)
(* and the tutor (app/(tabs)/ai-tutor.tsx) write it when a note is picked, *)
(* and the tutor reads it when notes:changed is published.                 *)
(***************************************************************************)
\* The home screen, a note pressed: selectNote(noteId), called by goToStudy and
\* goToChat.  await AsyncStorage.setItem(LAST_INDEXED_KEY, noteId).catch(() => {}):
\* the pointer stored, or the failure swallowed.
selectNote(noteId) ==
    /\ ngestures < MaxGestures
    /\ ngestures' = ngestures + 1
    /\ \/ asyncStorage' = [asyncStorage EXCEPT ![LAST_INDEXED_KEY] = noteId]
       \/ UNCHANGED asyncStorage
    /\ UNCHANGED <<serverNotes, notes, selectedNoteId, summaryText,
                   indexedNoteIds, ntasks, published, loads, sreads, stasks,
                   summaryBusy, loadingList, busy, itasks, indexingNoteId,
                   announced>>
    /\ UNCHANGED nonMountVars

\* The tutor, a note of its picker pressed (lines 355-358): the same write.
TutorPickNote(noteId) == selectNote(noteId)

\* A subscriber's reload reads the pointer (ai-tutor.tsx, loadNotes):
\* const last = await AsyncStorage.getItem(LAST_INDEXED_KEY).
SubscriberRead(k) ==
    /\ announced[k].seen = "unread"
    /\ announced' = [announced EXCEPT ![k] =
                       [@ EXCEPT !.seen = IF asyncStorage[LAST_INDEXED_KEY] = Null
                                          THEN "null"
                                          ELSE asyncStorage[LAST_INDEXED_KEY]]]
    /\ UNCHANGED <<asyncStorage, serverNotes, notes, selectedNoteId,
                   summaryText, indexedNoteIds, ntasks, published, loads,
                   sreads, stasks, summaryBusy, loadingList, busy, ngestures,
                   itasks, indexingNoteId>>
    /\ UNCHANGED nonMountVars

NextIndex ==
    \/ ScreenMount
    \/ \E t \in BagToSet(loads) : LoadNotesResponse(t)
    \/ \E t \in BagToSet(loads) : LoadNotesHydrate(t)
    \/ \E t \in BagToSet(loads) : LoadNotesSummary(t)
    \/ \E n \in NoteIds : ReadSummary(n)
    \/ \E n \in NoteIds : SelectNote(n)
    \/ CallGenerateSummary
    \/ \E i \in 1..Len(stasks) : GenerateSummaryToken(i)
    \/ \E i \in 1..Len(stasks) : GenerateSummaryResponse(i)
    \/ \E i \in 1..Len(stasks) : SaveSummary(i)
    \/ \E n \in NoteIds : confirmDelete(n)
    \/ \E i \in 1..Len(ntasks) : CallDeleteNote(i)
    \/ \E i \in 1..Len(ntasks) : DeleteNoteToken(i)
    \/ \E i \in 1..Len(ntasks) : DeleteNoteResponse(i)
    \/ \E i \in 1..Len(ntasks) : DeleteNoteSummaryIO(i)
    \/ \E i \in 1..Len(ntasks) : DeleteNoteIndexedIO(i)
    \/ \E i \in 1..Len(ntasks) : DeleteNoteAnnounce(i)
    \/ \E i \in 1..Len(ntasks) : DeleteNoteLoadSummary(i)
    \/ \E n \in NoteIds : CallIndexEmbeddings(n)
    \/ CallPickAndUpload
    \/ \E i \in 1..Len(itasks) : UploadPick(i)
    \/ \E i \in 1..Len(itasks) : UploadToken(i)
    \/ \E i \in 1..Len(itasks) : UploadWebFile(i)
    \/ \E i \in 1..Len(itasks) : UploadResponse(i)
    \/ \E i \in 1..Len(itasks) : UploadLoaded(i)
    \/ \E i \in 1..Len(itasks) : UploadKeys(i)
    \/ \E i \in 1..Len(itasks) : UploadClear(i)
    \/ \E i \in 1..Len(itasks) : IndexToken(i)
    \/ \E i \in 1..Len(itasks) : IndexResponse(i)
    \/ \E i \in 1..Len(itasks) : IndexFlagIO(i)
    \/ \E i \in 1..Len(itasks) : IndexLoadNotes(i)
    \/ \E i \in 1..Len(itasks) : IndexPointerIO(i)
    \/ \E i \in 1..Len(itasks) : IndexAnnounce(i)
    \/ \E n \in NoteIds : selectNote(n)
    \/ \E n \in NoteIds : TutorPickNote(n)
    \/ \E k \in 1..Len(announced) : SubscriberRead(k)

----------------------------------------------------------------------------
(***************************************************************************)
(* The tool screens (app/(tabs)/tools/_layout.tsx: flashcards, quiz.tsx:    *)
(* quiz).  The note id of a screen is its noteId parameter, or, without    *)
(* one, the last-indexed pointer once it was read.  Each loads the cached  *)
(* artifact of its note when the note id resolves and generates one when   *)
(* none is cached; Regenerate forces a generation.                         *)
(***************************************************************************)
Kinds == {"flashcards", "quiz"}
KeyFor(kind, noteId) == IF kind = "flashcards" THEN KEY_FC(noteId) ELSE KEY_QZ(noteId)

\* .filter(...): the items that have every field the screen needs.
Valid(item) == item # "bad"
mapApi(raw) == SelectSeq(raw, Valid)

InitTools ==
    /\ gens = << >>
    /\ shown = [kind \in Kinds |-> << >>]

\* The screen of a kind now mounted: the position of its mount in gens, 0 while
\* none was mounted.  A screen that is mounted again starts from its useState
\* values.
Screen(kind) ==
    LET S == {i \in 1..Len(gens) : gens[i].kind = kind /\ gens[i].mount}
    IN IF S = {} THEN 0 ELSE CHOOSE i \in S : \A j \in S : j <= i

\* A load or a generation.  mount: it is made by the effects of a new screen.
\* screen: the screen it runs in.  noteId, had: the note id and whether items
\* were shown, as the closure holds them.  hydrated: React state
\* hydratedFromCache of the screen, kept with its mount.  status, raw, mapped:
\* the response.  out: how it ended.  wrote: the cache write took effect.
NewGen(kind, noteId, force, mount) ==
    [kind |-> kind, noteId |-> noteId, force |-> force, mount |-> mount,
     screen |-> IF mount THEN Len(gens) + 1 ELSE Screen(kind),
     had |-> IF mount THEN FALSE ELSE Len(shown[kind]) > 0,
     hydrated |-> FALSE, pc |-> "start", status |-> 0,
     raw |-> << >>, mapped |-> << >>, out |-> "pending", wrote |-> FALSE]

\* setCards / setItems: the state of the screen the call runs in; a screen that
\* was replaced by a later mount shows nothing any more.
Show(g, items) ==
    IF g.screen = Screen(g.kind) THEN [shown EXCEPT ![g.kind] = items] ELSE shown

\* fetchFlashcards / fetchQuiz up to await getAccessToken().
fetchStart(g) ==
    IF g.noteId = Null THEN [g EXCEPT !.pc = "done", !.out = "no note"]
    ELSE IF ~g.force /\ g.had THEN [g EXCEPT !.pc = "done", !.out = "kept"]
    ELSE [g EXCEPT !.pc = "ft_token"]

\* setCards / setItems made by the synchronous part of fetchStart.
shownAfterStart(g) ==
    IF g.noteId = Null THEN Show(g, << >>) ELSE shown

\* A tool screen is mounted, with a noteId parameter or without one: noteId
\* starts as the parameter (useState(noteIdParam ?? null)), cards / items start
\* empty and hydratedFromCache false.  With a parameter the cache effect runs up
\* to await cacheGet(noteId); without one it returns at once (if (!canFetch)
\* return), and the first effect runs up to
\* await AsyncStorage.getItem(LAST_INDEXED_KEY).
CallLoad(kind, noteIdParam) ==
    /\ Len(gens) < MaxFetches
    /\ LET g == NewGen(kind, noteIdParam, FALSE, TRUE) IN
       gens' = Append(gens, IF noteIdParam = Null
                            THEN [g EXCEPT !.pc = "rs_read"]
                            ELSE [g EXCEPT !.pc = "ld_read"])
    /\ shown' = [shown EXCEPT ![kind] = << >>]
    /\ UNCHANGED <<asyncStorage, got, lastCall>>
    /\ UNCHANGED nonToolsVars

\* The pointer read of a screen mounted without a parameter answers:
\* if (last) setNoteId(last), and the cache effect, run again as canFetch
\* became true, goes up to await cacheGet(noteId).  With no pointer stored, on a
\* rejected read (nothing handles it) and on a screen no longer mounted, noteId
\* stays null and nothing more runs.
ResolveNoteId(i) ==
    /\ gens[i].pc = "rs_read"
    /\ LET g == gens[i] IN
       \E ok \in BOOLEAN :
          LET last == IF ok THEN asyncStorage[LAST_INDEXED_KEY] ELSE Null IN
          gens' = [gens EXCEPT ![i] =
                     IF last # Null /\ i = Screen(g.kind)
                     THEN [g EXCEPT !.noteId = last, !.pc = "ld_read"]
                     ELSE [g EXCEPT !.pc = "done", !.out = "no note"]]
    /\ UNCHANGED <<asyncStorage, shown, got, lastCall>>
    /\ UNCHANGED nonToolsVars

\* React state of screen m.  hydratedFromCache: set when the cache has answered
\* the cache effect of the screen.  loading: a generation of the screen is
\* between setLoading(true) and its finally.
HydratedFromCache(m) == gens[m].hydrated
Loading(m) ==
    \E j \in 1..Len(gens) :
        gens[j].screen = m /\ gens[j].pc \in {"ft_token", "ft_fetch", "ft_cache"}

\* Try Again, Generate or Regenerate pressed on the mounted screen, which shows
\* them when canFetch && hydratedFromCache && !loading: fetchFlashcards(true) /
\* fetchQuiz(true), with the note id of the screen.
CallFetch(kind) ==
    /\ Len(gens) < MaxFetches
    /\ Screen(kind) > 0
    /\ gens[Screen(kind)].noteId # Null
    /\ HydratedFromCache(Screen(kind))
    /\ ~Loading(Screen(kind))
    /\ LET g == NewGen(kind, gens[Screen(kind)].noteId, TRUE, FALSE) IN
       /\ gens' = Append(gens, fetchStart(g))
       /\ shown' = shownAfterStart(g)
    /\ UNCHANGED <<asyncStorage, got, lastCall>>
    /\ UNCHANGED nonToolsVars

\* The cache answers the cache effect: setHydratedFromCache(true), and a
\* non-empty list is shown, else the generation starts.
LoadRead(i) ==
    /\ gens[i].pc = "ld_read"
    /\ LET g == [gens[i] EXCEPT !.hydrated = TRUE]
           op == IF g.kind = "flashcards" THEN "getFlashcards" ELSE "getQuiz"
       IN \E ok \in BOOLEAN :
          LET cached == IF ok THEN Read(asyncStorage[KeyFor(g.kind, g.noteId)])
                        ELSE Nothing
              hit == \E v \in cached : Len(v) > 0
          IN /\ got' = [op |-> op, noteId |-> g.noteId, result |-> cached, ok |-> ok]
             /\ lastCall' = [op |-> op, noteId |-> g.noteId, value |-> Null, ok |-> ok]
             /\ IF hit
                THEN /\ shown' = Show(g, CHOOSE v \in cached : TRUE)
                     /\ gens' = [gens EXCEPT ![i] =
                                    [g EXCEPT !.pc = "done", !.out = "cached"]]
                ELSE /\ gens' = [gens EXCEPT ![i] = fetchStart(g)]
                     /\ shown' = shownAfterStart(g)
    /\ UNCHANGED asyncStorage
    /\ UNCHANGED nonToolsVars

\* await getAccessToken(): a rejection reaches the catch, else the request goes out.
FetchToken(i) ==
    /\ gens[i].pc = "ft_token"
    /\ \/ /\ gens' = [gens EXCEPT ![i] = [@ EXCEPT !.pc = "ft_fetch"]]
          /\ UNCHANGED shown
       \/ /\ gens' = [gens EXCEPT ![i] = [@ EXCEPT !.pc = "done", !.out = "error"]]
          /\ shown' = Show(gens[i], << >>)
    /\ UNCHANGED <<asyncStorage, got, lastCall>>
    /\ UNCHANGED nonToolsVars

\* Mutant: whatever the response, its items are shown and handed to the cache.
FetchResponse_always(i) ==
    /\ gens[i].pc = "ft_fetch"
    /\ LET g == gens[i] IN
       \/ /\ gens' = [gens EXCEPT ![i] = [g EXCEPT !.pc = "done", !.out = "error"]]
          /\ shown' = Show(g, << >>)
       \/ \E s \in GenStatuses, raw \in RawLists :
            /\ shown' = Show(g, mapApi(raw))
            /\ gens' = [gens EXCEPT ![i] =
                           [g EXCEPT !.status = s, !.raw = raw, !.mapped = mapApi(raw),
                                     !.pc = "ft_cache"]]
    /\ UNCHANGED <<asyncStorage, got, lastCall>>
    /\ UNCHANGED nonToolsVars

\* The generation request is answered (or fails): lines 62-86 of _layout.tsx,
\* 97-115 of quiz.tsx, up to await cacheSet(noteId, mapped).
FetchResponse(i) ==
    /\ gens[i].pc = "ft_fetch"
    /\ LET g == gens[i] IN
       \/ /\ gens' = [gens EXCEPT ![i] = [g EXCEPT !.pc = "done", !.out = "error"]]
          /\ shown' = Show(g, << >>)
       \/ \E s \in GenStatuses, raw \in RawLists :
            LET g1 == [g EXCEPT !.status = s, !.raw = raw] IN
            IF ~ResOk(s)
            THEN /\ gens' = [gens EXCEPT ![i] = [g1 EXCEPT !.pc = "done", !.out = "failed"]]
                 /\ shown' = Show(g, << >>)
            ELSE IF Len(mapApi(raw)) = 0
            THEN /\ gens' = [gens EXCEPT ![i] = [g1 EXCEPT !.pc = "done", !.out = "empty"]]
                 /\ shown' = Show(g, << >>)
            ELSE /\ gens' = [gens EXCEPT ![i] =
                                [g1 EXCEPT !.mapped = mapApi(raw), !.pc = "ft_cache"]]
                 /\ shown' = Show(g, mapApi(raw))
    /\ UNCHANGED <<asyncStorage, got, lastCall>>
    /\ UNCHANGED nonToolsVars

\* await cacheSetFC(noteId, mapped) / cacheSetQuiz(noteId, mapped): the entry
\* written, a failure swallowed.
FetchCache(i) ==
    /\ gens[i].pc = "ft_cache"
    /\ LET g == gens[i]
           op == IF g.kind = "flashcards" THEN "setFlashcards" ELSE "setQuiz"
       IN \E ok \in BOOLEAN :
          /\ asyncStorage' = IF ok
                THEN [asyncStorage EXCEPT ![KeyFor(g.kind, g.noteId)] = Stringify(g.mapped)]
                ELSE asyncStorage
          /\ lastCall' = [op |-> op, noteId |-> g.noteId, value |-> g.mapped, ok |-> ok]
          /\ gens' = [gens EXCEPT ![i] = [g EXCEPT !.pc = "done", !.out = "ok",
                                                   !.wrote = ok]]
    /\ UNCHANGED <<shown, got>>
    /\ UNCHANGED nonToolsVars

NextTools ==
    \/ \E kind \in Kinds, n \in NoteIds \cup {Null} : CallLoad(kind, n)
    \/ \E i \in 1..Len(gens) : ResolveNoteId(i)
    \/ \E kind \in Kinds : CallFetch(kind)
    \/ \E i \in 1..Len(gens) : LoadRead(i)
    \/ \E i \in 1..Len(gens) : FetchToken(i)
    \/ \E i \in 1..Len(gens) : FetchResponse(i)
    \/ \E i \in 1..Len(gens) : FetchCache(i)

----------------------------------------------------------------------------
(***************************************************************************)
(* The credential store (getItem / setItem / deleteItem): expo-secure-store *)
(* on a native platform when it can be loaded and reports itself available, *)
(* AsyncStorage otherwise.  Nothing orders the calls: one is made while     *)
(* others are under way, and their operations land in any order.            *)
(***************************************************************************)
\* A call.  avail: what getSecureStore returned (a module or null).  raised: the
\* secure operation raised.  generic: the AsyncStorage operation was issued.
\* result: the value the call resolved with.  out: how it ended.  alone: every
\* call made before it had ended when it was made.
NewStoreCall(op, key, value) ==
    [op |-> op, key |-> key, value |-> value,
     pc |-> IF platform = "web" THEN "generic" ELSE "gss",
     avail |-> FALSE, raised |-> FALSE, generic |-> FALSE, result |-> Null,
     out |-> "pending",
     alone |-> \A j \in 1..Len(scalls) : scalls[j].pc = "done"]

InitStore == scalls = << >>

\* What the operation leaves in a backend, and what it resolves with.
Effect(c, backend) ==
    IF c.op = "setItem" THEN [backend EXCEPT ![c.key] = c.value]
    ELSE IF c.op = "deleteItem" THEN [backend EXCEPT ![c.key] = Null]
    ELSE backend

Resolved(c, backend) == IF c.op = "getItem" THEN backend[c.key] ELSE Null

\* A call up to its first await: the AsyncStorage operation issued on the web,
\* await getSecureStore() elsewhere.
CallStore(op, key, value) ==
    /\ Len(scalls) < MaxStoreCalls
    /\ scalls' = Append(scalls, NewStoreCall(op, key, value))
    /\ UNCHANGED <<platform, secureStore, asyncStorage>>
    /\ UNCHANGED nonStoreVars

getItem(key) == CallStore("getItem", key, Null)

setItem(key, value) == CallStore("setItem", key, value)

deleteItem(key) == CallStore("deleteItem", key, Null)

\* getSecureStore resolves: the module, or null when the import fails, the store
\* reports itself unavailable, or the check raises.
GetSecureStore(i) ==
    /\ scalls[i].pc = "gss"
    /\ \E ok \in BOOLEAN :
          scalls' = [scalls EXCEPT ![i] =
                        [@ EXCEPT !.avail = ok,
                                  !.pc = IF ok THEN "secure" ELSE "generic"]]
    /\ UNCHANGED <<platform, secureStore, asyncStorage>>
    /\ UNCHANGED nonStoreVars

\* Mutant: a secure operation that raises ends the call with that error.
SecureOp_noFallback(i) ==
    /\ scalls[i].pc = "secure"
    /\ LET c == scalls[i] IN
       \/ /\ secureStore' = Effect(c, secureStore)
          /\ scalls' = [scalls EXCEPT ![i] =
                [c EXCEPT !.pc = "done", !.out = "ok",
                          !.result = Resolved(c, secureStore)]]
       \/ /\ scalls' = [scalls EXCEPT ![i] =
                [c EXCEPT !.pc = "done", !.raised = TRUE, !.out = "error"]]
          /\ UNCHANGED secureStore
    /\ UNCHANGED <<platform, asyncStorage>>
    /\ UNCHANGED nonStoreVars

\* try { return await SecureStore.xxxAsync(key) } catch { fall through }
SecureOp(i) ==
    /\ scalls[i].pc = "secure"
    /\ LET c == scalls[i] IN
       \/ /\ secureStore' = Effect(c, secureStore)
          /\ scalls' = [scalls EXCEPT ![i] =
                [c EXCEPT !.pc = "done", !.out = "ok",
                          !.result = Resolved(c, secureStore)]]
       \/ /\ scalls' = [scalls EXCEPT ![i] = [c EXCEPT !.pc = "generic", !.raised = TRUE]]
          /\ UNCHANGED secureStore
    /\ UNCHANGED <<platform, asyncStorage>>
    /\ UNCHANGED nonStoreVars

\* return AsyncStorage.getItem / setItem / removeItem: its failure is the call's.
GenericOp(i) ==
    /\ scalls[i].pc = "generic"
    /\ LET c == scalls[i] IN
       \/ /\ asyncStorage' = Effect(c, asyncStorage)
          /\ scalls' = [scalls EXCEPT ![i] =
                [c EXCEPT !.pc = "done", !.generic = TRUE, !.out = "ok",
                          !.result = Resolved(c, asyncStorage)]]
       \/ /\ scalls' = [scalls EXCEPT ![i] =
                [c EXCEPT !.pc = "done", !.generic = TRUE, !.out = "error"]]
          /\ UNCHANGED asyncStorage
    /\ UNCHANGED <<platform, secureStore>>
    /\ UNCHANGED nonStoreVars

NextStore ==
    \/ \E k \in CredentialKeys : getItem(k)
    \/ \E k \in CredentialKeys, v \in StoreValues : setItem(k, v)
    \/ \E k \in CredentialKeys : deleteItem(k)
    \/ \E i \in 1..Len(scalls) : GetSecureStore(i)
    \/ \E i \in 1..Len(scalls) : SecureOp(i)
    \/ \E i \in 1..Len(scalls) : GenericOp(i)

----------------------------------------------------------------------------
(***************************************************************************)
(* The initial states.  The state of the program is that of its             *)
(* construction; the stores hold what earlier runs left.                    *)
(***************************************************************************)
\* The initial state, with what AsyncStorage holds drawn from C, S, F and P and
\* the platform and the credentials from the starts K.
InitWith(C, S, F, P, K) ==
    InitAuth /\ InitBus /\ InitNotes /\ InitStore /\ InitTools /\ InitIndex
      /\ InitStorage(C, S, F, P, K)

\* A signed-in session: the bootstrap is over and a signIn has resolved (lines
\* 172-175), so the pair of the login is in the shadow and in the store of the
\* platform, user is the profile and no call is under way.
InitSignedIn ==
    /\ accessTokenMem = LoginAccess
    /\ refreshTokenMem = LoginRefresh
    /\ refreshInFlight = 0
    /\ user = "u1"
    /\ loading = FALSE
    /\ mounted = TRUE
    /\ tasks = << >>
    /\ nfallbacks = 0

SignedStart(p) ==
    IF p = "web" THEN Start(p, NoPair, Pair(LoginAccess, LoginRefresh))
    ELSE Start(p, Pair(LoginAccess, LoginRefresh), NoPair)

\* The initial state of the uploads screen: that of InitWith on platform p, but
\* with a signed-in session.
InitSignedInWith(C, S, F, P, p) ==
    InitSignedIn /\ InitBus /\ InitNotes /\ InitStore /\ InitTools /\ InitIndex
      /\ InitStorage(C, S, F, P, {SignedStart(p)})

Init ==
    InitWith([CacheKeys -> CacheEntries], [NoteIds -> Summaries \cup {Null, ""}],
             NoteIds, NoteIds \cup {Null}, Starts)

\* A fresh install on a native platform: no credential stored.
FreshStart == Start("ios", NoPair, NoPair)

\* The starts of the session layer: on the web, nothing stored or the pair of an
\* earlier session in AsyncStorage; on a native platform, any part of that pair
\* in the secure store, and the pair there with an access credential that a
\* fallback write of an earlier run left in AsyncStorage.
SessionStarts ==
    {Start("web", NoPair, p) : p \in {NoPair, Pair(StoredAccess, StoredRefresh)}}
      \cup {Start("ios", Pair(a, r), NoPair) :
               a \in {Null, StoredAccess}, r \in {Null, StoredRefresh}}
      \cup {Start("ios", Pair(StoredAccess, StoredRefresh), Pair("a1", Null))}

\* The starts of the credential store: on either platform, with or without an
\* access credential in each backend.
StoreStarts ==
    LET held == {NoPair, Pair(StoredAccess, Null)}
    IN {Start("web", NoPair, q) : q \in held}
         \cup {Start("ios", p, q) : p \in held, q \in held}

\* A run of one part starts with the other parts in the state of a fresh
\* install: no note on the backend.
NotesFresh == serverNotes = {}

\* Nothing cached, and the flashcards of one note cached; no summary stored,
\* and the summary of one note stored.
NoCache == [k \in CacheKeys |-> Null]
OneCached == [NoCache EXCEPT ![KEY_FC("n1")] = Stringify(<<"k1", "k2">>)]
NoSummary == [n \in NoteIds |-> Null]
OneSummary == [NoSummary EXCEPT !["n1"] = "s1"]

InitSession == InitWith({NoCache}, {NoSummary}, {}, {Null}, SessionStarts) /\ NotesFresh
InitBusOnly == InitWith({NoCache}, {NoSummary}, {}, {Null}, {FreshStart}) /\ NotesFresh
\* The runs of the uploads screen start with a signed-in session, on a native
\* platform, or on the web with one note on the backend and its summary stored.
InitNotesOnly ==
    \/ InitSignedInWith({OneCached}, {NoSummary, OneSummary}, {"n1"}, {Null}, "ios")
    \/ /\ InitSignedInWith({OneCached}, {OneSummary}, {}, {Null}, "web")
       /\ serverNotes = {"n1"}
InitStoreOnly == InitWith({NoCache}, {NoSummary}, {}, {Null}, StoreStarts) /\ NotesFresh
InitCacheOnly ==
    InitWith([CacheKeys -> {Null, Corrupt}], {NoSummary}, {}, {Null}, {FreshStart})
      /\ NotesFresh
InitToolsOnly ==
    InitWith([CacheKeys -> {Null, Corrupt}], {NoSummary}, {}, NoteIds \cup {Null},
             {FreshStart})
      /\ NotesFresh
InitIndexOnly ==
    \/ InitSignedInWith({NoCache}, {NoSummary}, {"n2"}, {Null, "n2"}, "ios")
    \/ /\ InitSignedInWith({NoCache}, {OneSummary}, {}, {Null}, "web")
       /\ serverNotes = {"n1"}

Spec == InitSession /\ [][Next]_vars

SpecBus == InitBusOnly /\ [][NextBus]_vars

SpecNotes == InitNotesOnly /\ [][NextNotes]_vars

SpecStore == InitStoreOnly /\ [][NextStore]_vars

SpecCache == InitCacheOnly /\ [][NextCache]_vars

SpecTools == InitToolsOnly /\ [][NextTools]_vars

SpecIndex == InitIndexOnly /\ [][NextIndex]_vars

----------------------------------------------------------------------------
(***************************************************************************)
(* Properties of the session layer, checked under Spec.                    *)
(***************************************************************************)
\* The credential is in neither backend.
Absent(key) == secureStore[key] = Null /\ asyncStorage[key] = Null
\* The step is a setItem (a deleteItem when val is null) that took effect on the
\* one backend that served it.
Landed(key, val) ==
    \/ /\ platform # "web" /\ secureStore' = [secureStore EXCEPT ![key] = val]
       /\ asyncStorage' = asyncStorage
    \/ /\ asyncStorage' = [asyncStorage EXCEPT ![key] = val]
       /\ secureStore' = secureStore

AuthFetchKinds == {"authFetch", "refreshProfile", "bootstrap"}
IsAuthFetch(t) == t.kind \in AuthFetchKinds
IsRefresh(t) == t.kind = "refreshIIFE"
Ended(t) == t.out # "pending"
\* The call sits in refreshAccessToken (or before its own first response).
InRefresh(t) == t.pc \in {"gtA_io", "gtA_res", "gtR_io", "gtR_res", "gt_ret",
                          "rf_await", "rf_join"}
Tasks == 1..Len(tasks)

\* C1: calls of refreshAccessToken that began while no refresh was in flight, with
\* no refresh request issued between their beginnings, and that hold a refresh
\* credential, are all served by one POST /api/auth/refresh: they await the same
\* request, and so resolve to the same new access credential.
C1_SingleFlight ==
    \A i, j \in Tasks :
        (/\ tasks[i].nref = 1 /\ tasks[j].nref = 1
         /\ tasks[i].begunIdle /\ tasks[j].begunIdle
         /\ tasks[i].begunAt = tasks[j].begunAt
         /\ tasks[i].flight # 0 /\ tasks[j].flight # 0)
        => /\ tasks[i].flight = tasks[j].flight
           /\ (tasks[i].newAccess # Null /\ tasks[j].newAccess # Null
                 => tasks[i].newAccess = tasks[j].newAccess)

\* C2: an authFetch call issues at most two requests and calls refresh at most
\* once; it reissues its request (same path) exactly when the first response was
\* 401 and the refresh succeeded; and a call that reissued ends with the retried
\* response: its body on a success status, else one error carrying the retried
\* status (401 when the retried response is 401 again) and body.
C2_RetryOnce ==
    \A i \in Tasks :
        LET t == tasks[i] IN
        IsAuthFetch(t) =>
            /\ t.nreq <= 2 /\ t.nref <= 1
            /\ (t.nreq = 2 =>
                  /\ t.st1 = 401 /\ t.nref = 1
                  /\ tasks[t.flight].out = "ok"
                  /\ t.sent2.path = t.sent1.path)
            /\ (t.flight # 0 /\ tasks[t.flight].out = "ok" /\ ~InRefresh(t)
                  => t.nreq = 2)
            /\ (Ended(t) /\ t.nreq = 2 /\ t.st2 # 0 =>
                  /\ t.ret = "body2"
                  /\ t.status = t.st2
                  /\ (ResOk(t.st2) <=> t.out = "ok")
                  /\ (t.st2 = 401 => t.out = "Request failed" /\ t.status = 401))

\* A call that was answered 401, refreshed, retried and returned the retried body.
C2_Witness ==
    \E i \in Tasks :
        /\ IsAuthFetch(tasks[i]) /\ tasks[i].st1 = 401 /\ tasks[i].nreq = 2
        /\ tasks[i].out = "ok" /\ tasks[i].ret = "body2"

\* C3: the bootstrap (the profile check at provider mount) never attempts a
\* credential refresh, whatever its profile fetch is answered: no bootstrap has
\* called refreshAccessToken.
C3_BootstrapNeverRefreshes ==
    \A i \in Tasks : tasks[i].kind = "bootstrap" => tasks[i].nref = 0

\* C4 as stated: whenever a refresh exchange ends without success, for any of the
\* three reasons, both credentials are then absent in memory and in the store and
\* the outcome handed to the waiters is an authorization failure.
C4_AnyFailureClears ==
    [][\A f \in Tasks :
          (IsRefresh(tasks[f]) /\ tasks[f].pc # "done" /\ tasks'[f].pc = "done"
             /\ tasks'[f].out # "ok")
          => /\ tasks'[f].out = "UNAUTHORIZED"
             /\ accessTokenMem' = Null /\ refreshTokenMem' = Null
             /\ Absent(ACCESS_KEY)' /\ Absent(REFRESH_KEY)'
      ]_vars

\* C4 amended: when the refresh exchange is answered with a non-2xx status or
\* without accessToken, the refresh clears both shadows at once, then deletes the
\* access entry and the refresh entry, each from the backend of the store that
\* serves the deletion (a copy in the other backend stays), and when both deletions
\* succeeded it clears the in-flight marker and fails with UNAUTHORIZED (401),
\* which every caller awaiting it receives without issuing a retry.  A request
\* that fails to complete, or a deletion that fails, clears nothing further and
\* hands the waiters that failure.
C4_RejectedRefreshClears ==
    [][\A f \in Tasks :
          IsRefresh(tasks[f]) =>
            /\ (tasks[f].pc = "ii_fetch" /\ tasks'[f].pc # "ii_fetch"
                  /\ tasks'[f].newAccess = Null /\ tasks'[f].out # "network"
                  => /\ accessTokenMem' = Null /\ refreshTokenMem' = Null
                     /\ tasks'[f].pc = "stA_io"
                     /\ tasks'[f].wa = Null /\ tasks'[f].wr = Null)
            /\ (tasks[f].pc = "ii_fetch" /\ tasks'[f].out = "network"
                  => UNCHANGED <<accessTokenMem, refreshTokenMem, secureStore,
                                 asyncStorage, refreshInFlight>>)
            /\ (tasks[f].out = "rejected" /\ tasks[f].pc = "stA_io" /\ tasks'[f].pc = "stR_io"
                  => Landed(ACCESS_KEY, Null))
            /\ (tasks[f].out = "rejected" /\ tasks[f].pc = "stR_io" /\ tasks'[f].pc = "st_ret"
                  => Landed(REFRESH_KEY, Null))
            /\ (tasks[f].out = "rejected" /\ tasks'[f].out = "storage"
                  => UNCHANGED <<accessTokenMem, refreshTokenMem, secureStore,
                                 asyncStorage, refreshInFlight>>)
            /\ (tasks[f].out = "rejected" /\ tasks[f].pc = "st_ret" /\ tasks'[f].pc = "done"
                  => /\ tasks'[f].out = "UNAUTHORIZED" /\ tasks'[f].status = 401
                     /\ refreshInFlight' = 0)
            /\ \A i \in Tasks :
                 (/\ tasks[i].pc \in {"rf_await", "rf_join"} /\ tasks[i].flight = f
                  /\ tasks'[i].pc \notin {"rf_await", "rf_join"}
                  /\ tasks[f].out # "ok")
                 => /\ tasks'[i].out = tasks[f].out
                    /\ tasks'[i].status = tasks[f].status
                    /\ tasks'[i].nreq = 1
      ]_vars

\* A caller that joined a refresh which was then rejected, and received 401.
C4_Witness ==
    \E i \in Tasks :
        /\ IsAuthFetch(tasks[i]) /\ tasks[i].flight # 0
        /\ tasks[tasks[i].flight].owner # i
        /\ tasks[tasks[i].flight].out = "UNAUTHORIZED"
        /\ tasks[i].out = "UNAUTHORIZED" /\ tasks[i].status = 401
        /\ Absent(ACCESS_KEY) /\ Absent(REFRESH_KEY)

\* C5: at the moment a successful refresh resolves, reading the credentials back
\* (the shadow, else the store) yields neither the new access credential with an
\* absent refresh credential nor the pre-refresh access credential with the
\* retained refresh credential.
C5_NoMixedPair ==
    [][\A f \in Tasks :
          (IsRefresh(tasks[f]) /\ tasks[f].pc = "st_ret" /\ tasks'[f].pc = "done"
             /\ tasks'[f].out = "ok")
          => LET a == IF accessTokenMem' # Null THEN accessTokenMem'
                      ELSE Stored(ACCESS_KEY)'
                 r == IF refreshTokenMem' # Null THEN refreshTokenMem'
                      ELSE Stored(REFRESH_KEY)'
             IN /\ ~(a = tasks[f].newAccess /\ r = Null)
                /\ ~(a # tasks[f].newAccess /\ a = tasks[f].at /\ r = tasks[f].rt)
      ]_vars

\* C6: the step that completes a signOut completes it without an error and
\* leaves user null (also when a deletion from the store failed).
C6_SignOutCannotFail ==
    [][\A i \in Tasks :
          (tasks[i].kind = "signOut" /\ tasks[i].pc # "done" /\ tasks'[i].pc = "done")
          => /\ tasks'[i].out = "ok"
             /\ user' = Null
      ]_vars

\* C7: when every call has completed and no storage operation or request failed,
\* each shadow is either not loaded or equal to the value a backend of the store
\* holds.
Quiescent == \A i \in Tasks : tasks[i].pc = "done"
NoFault == \A i \in Tasks : tasks[i].out \notin {"storage", "network"}
C7_ShadowMatchesStore ==
    (mounted /\ Quiescent /\ NoFault) =>
        /\ accessTokenMem \in {Null, secureStore[ACCESS_KEY], asyncStorage[ACCESS_KEY]}
        /\ refreshTokenMem \in {Null, secureStore[REFRESH_KEY], asyncStorage[REFRESH_KEY]}

\* C12: a caller that joined a refresh resumes with its outcome only when the
\* in-flight marker no longer points to that refresh, and the caller that started
\* it clears the marker as it resumes; no call joins a refresh that has finished,
\* and a call that holds a refresh credential and finds the marker clear issues a
\* new refresh request.
C12_MarkerClearedBeforeWaiters ==
    [][\A i \in Tasks :
          /\ (tasks[i].pc \in {"rf_await", "rf_join"}
                /\ tasks'[i].pc \notin {"rf_await", "rf_join"})
             => /\ refreshInFlight' # tasks[i].flight
                /\ (tasks[i].pc = "rf_join" => refreshInFlight # tasks[i].flight)
          /\ (tasks[i].pc = "gt_ret" /\ tasks[i].ctx = "rf" /\ tasks'[i].pc # "gt_ret")
             => /\ (tasks'[i].pc = "rf_join" => tasks[tasks'[i].flight].pc # "done")
                /\ (tasks[i].rt # Null /\ refreshInFlight = 0
                      => /\ Len(tasks') = Len(tasks) + 1
                         /\ tasks'[Len(tasks')].pc = "ii_fetch"
                         /\ tasks'[i].flight = Len(tasks')
                         /\ refreshInFlight' = Len(tasks'))
      ]_vars

\* A caller that joined a refresh whose request failed to complete has resumed
\* with that failure, and the marker is clear.
C12_Witness ==
    \E i \in Tasks :
        /\ tasks[i].flight # 0
        /\ tasks[tasks[i].flight].owner # i
        /\ tasks[tasks[i].flight].out = "network"
        /\ tasks[i].out = "network"
        /\ refreshInFlight = 0

\* The refresh a call invoked has failed: no refresh credential, or the refresh
\* awaited ended in a failure.
RefreshFailedFor(t) ==
    \/ t.pc = "gt_ret" /\ t.ctx = "rf" /\ t.rt = Null
    \/ t.pc \in {"rf_await", "rf_join"} /\ tasks[t.flight].pc = "done"
         /\ tasks[t.flight].out # "ok"

\* C13 as stated: an authFetch call whose refresh failed, for any reason, ends
\* with the authorization error (UNAUTHORIZED, status 401).
C13_RefreshFailureIsAuthorizationError ==
    \A i \in Tasks :
        LET t == tasks[i] IN
        (IsAuthFetch(t) /\ Ended(t) /\ t.nref = 1 /\ t.nreq = 1)
           => t.out = "UNAUTHORIZED" /\ t.status = 401

\* C13 amended: when the refresh invoked by authFetch after a 401 fails, the call
\* ends at once with the error of the refresh: UNAUTHORIZED with status 401 when
\* the backend rejected the refresh, the error "No refresh token" (no status) when
\* no refresh credential is held, the transport or storage failure otherwise; it
\* has issued one request only, and the step leaves user unchanged.
C13_RefreshFailureEndsCall ==
    [][\A i \in Tasks :
          (IsAuthFetch(tasks[i]) /\ RefreshFailedFor(tasks[i]) /\ tasks'[i] # tasks[i])
          => LET t == tasks[i]
                 u == tasks'[i]
             IN /\ Ended(u) /\ u.pc \in {"rp_set", "done"}
                /\ u.nreq = 1 /\ u.sent2 = NoRequest
                /\ user' = user
                /\ IF t.pc = "gt_ret"
                   THEN u.out = "No refresh token" /\ u.status = 0
                   ELSE /\ u.out = tasks[t.flight].out
                        /\ u.status = tasks[t.flight].status
                        /\ u.out \in {"UNAUTHORIZED", "network", "storage"}
                        /\ (u.out = "UNAUTHORIZED" <=> u.status = 401)
      ]_vars

\* A call answered 401 that held no refresh credential and ended with
\* "No refresh token" after one request.
C13_Witness ==
    \E i \in Tasks :
        /\ IsAuthFetch(tasks[i]) /\ tasks[i].st1 = 401 /\ tasks[i].nref = 1
        /\ tasks[i].nreq = 1 /\ tasks[i].out = "No refresh token"

\* C14: a retry request of an authFetch call exists only when the refresh the
\* call awaited has completed successfully, it goes to the path of the first
\* request, and its Authorization credential is the one that refresh returned.
C14_RetryAfterRefresh ==
    \A i \in Tasks :
        LET t == tasks[i] IN
        (IsAuthFetch(t) /\ (t.nreq = 2 \/ t.sent2 # NoRequest \/ t.pc = "af_fetch2"))
           => /\ t.flight # 0
              /\ tasks[t.flight].pc = "done" /\ tasks[t.flight].out = "ok"
              /\ t.sent2.path = t.sent1.path
              /\ t.sent2.auth = tasks[t.flight].ret
              /\ t.sent2.auth = tasks[t.flight].newAccess
              /\ t.sent2.auth # Null

\* A call whose first request carried the stored credential and whose retry
\* carries the credential the refresh returned.
C14_Witness ==
    \E i \in Tasks :
        /\ IsAuthFetch(tasks[i]) /\ tasks[i].nreq = 2
        /\ tasks[i].sent1.auth = StoredAccess
        /\ tasks[i].sent2.auth \in AccessVals

\* C15: the step that delivers the first response of an authFetch call, when
\* the status is not 401, ends the call with no refresh and no second request:
\* with the parsed body on a success status, else with the error "Request failed"
\* carrying that status and the parsed body; and when the request failed to
\* complete, the step ends the call with that failure, no refresh, no retry.
C15_NoRetryUnless401 ==
    [][\A i \in Tasks :
          (IsAuthFetch(tasks[i]) /\ tasks[i].pc = "af_fetch1" /\ tasks'[i] # tasks[i]
             /\ tasks'[i].st1 # 401)
          => LET u == tasks'[i] IN
             /\ Ended(u) /\ u.pc \in {"rp_set", "done"}
             /\ u.nref = 0 /\ u.nreq = 1 /\ u.sent2 = NoRequest /\ u.flight = 0
             /\ Len(tasks') = Len(tasks)
             /\ IF u.st1 = 0
                THEN u.out = "network" /\ u.ret = Null
                ELSE /\ u.status = u.st1 /\ u.ret = "body1"
                     /\ (ResOk(u.st1) => u.out = "ok")
                     /\ (~ResOk(u.st1) => u.out = "Request failed")
      ]_vars

\* A call whose first response had status 500 and that failed with that status.
C15_Witness ==
    \E i \in Tasks :
        /\ IsAuthFetch(tasks[i]) /\ tasks[i].st1 = 500
        /\ tasks[i].out = "Request failed" /\ tasks[i].status = 500
        /\ tasks[i].nreq = 1

\* The bootstrap has completed: its profile check ended and setLoading ran.
BootstrapDone == \E i \in Tasks : tasks[i].kind = "bootstrap" /\ tasks[i].pc = "done"

\* C16: loading is true exactly as long as the bootstrap has not completed,
\* whether its profile check succeeded or failed, and no step of any call makes
\* loading true again.
C16_LoadingOnlyDuringBootstrap ==
    [][/\ (loading' => loading)
       /\ (loading <=> ~BootstrapDone)
       /\ (loading' <=> ~BootstrapDone')
      ]_vars

\* The bootstrap's profile check failed, loading is false, and a later signIn
\* has completed.
C16_Witness ==
    /\ ~loading
    /\ \E i \in Tasks : tasks[i].kind = "bootstrap" /\ tasks[i].out \notin {"ok", "pending"}
    /\ \E j \in Tasks : tasks[j].kind = "signIn" /\ tasks[j].pc = "done"
                          /\ tasks[j].out = "ok"

IsSign(t) == t.kind \in {"signIn", "signUp"}

\* C17: when the login or registration exchange succeeds, the step that receives
\* the response assigns both returned credentials to the shadow, the two storage
\* steps that follow write the access and the refresh credential to the store,
\* and the call resolves only after both writes, in a step that sets user to the
\* returned profile.
C17_SignInStoresBeforeResolve ==
    [][\A i \in Tasks :
          IsSign(tasks[i]) =>
            LET t == tasks[i]
                u == tasks'[i]
            IN /\ (t.pc = "lg_fetch" /\ u.pc = "stA_io"
                     => /\ accessTokenMem' = LoginAccess
                        /\ refreshTokenMem' = LoginRefresh
                        /\ u.wa = LoginAccess /\ u.wr = LoginRefresh)
               /\ (t.pc = "stA_io" /\ u.pc = "stR_io" => Landed(ACCESS_KEY, LoginAccess))
               /\ (t.pc = "stR_io" /\ u.pc = "st_ret" => Landed(REFRESH_KEY, LoginRefresh))
               /\ (t.pc # "done" /\ u.pc = "done" /\ u.out = "ok"
                     => t.pc = "st_ret" /\ t.u # Null /\ user' = t.u)
      ]_vars

\* A signIn has resolved: user is the returned profile and the returned pair is
\* in the shadow and in the store.
C17_Witness ==
    \E i \in Tasks :
        /\ tasks[i].kind = "signIn" /\ tasks[i].pc = "done" /\ tasks[i].out = "ok"
        /\ user = tasks[i].u /\ user # Null
        /\ accessTokenMem = LoginAccess /\ refreshTokenMem = LoginRefresh
        /\ Stored(ACCESS_KEY) = LoginAccess /\ Stored(REFRESH_KEY) = LoginRefresh

\* C18: when the backend rejects the login or registration (a non-2xx
\* response), the step that receives the response ends the call with the error
\* LOGIN_FAILED / REGISTER_FAILED carrying the status of the response and its
\* parsed body, and leaves the shadow, the store and user as they were; the call
\* has made no other step.
C18_RejectedSignInPassesThrough ==
    [][\A i \in Tasks :
          (IsSign(tasks[i]) /\ tasks[i].pc = "lg_fetch" /\ tasks'[i] # tasks[i]
             /\ tasks'[i].st1 # 0 /\ ~ResOk(tasks'[i].st1))
          => LET u == tasks'[i] IN
             /\ u.pc = "done"
             /\ u.out = (IF u.kind = "signIn" THEN "LOGIN_FAILED" ELSE "REGISTER_FAILED")
             /\ u.status = u.st1
             /\ u.ret = "body1"
             /\ UNCHANGED <<accessTokenMem, refreshTokenMem, secureStore, asyncStorage, user>>
      ]_vars

\* A signIn rejected with status 400 has failed with LOGIN_FAILED and that status.
C18_Witness ==
    \E i \in Tasks :
        /\ tasks[i].kind = "signIn" /\ tasks[i].pc = "done"
        /\ tasks[i].st1 = 400 /\ tasks[i].out = "LOGIN_FAILED" /\ tasks[i].status = 400

\* C19: a signOut called when already signed out (no credential in the shadow or
\* the store, user null, no other call under way or made meanwhile) changes
\* neither the shadow nor the store nor user in any of its steps, and completes
\* without an error.
C19_SignOutWhenSignedOut ==
    [][\A i \in Tasks :
          (/\ tasks[i].kind = "signOut" /\ tasks[i].signedOut
           /\ \A j \in Tasks : j # i => tasks[j].pc = "done"
           /\ tasks'[i] # tasks[i])
          => /\ UNCHANGED <<accessTokenMem, refreshTokenMem, secureStore, asyncStorage, user>>
             /\ (tasks'[i].pc = "done" => tasks'[i].out = "ok")
      ]_vars

\* The step is the synchronous part of a setTokens call made by signIn, signUp,
\* signOut or the refresh: both shadows take the arguments of the call.
SetTokensStep ==
    \E i \in 1..Len(tasks') :
        /\ tasks'[i].kind \in {"signIn", "signUp", "signOut", "refreshIIFE"}
        /\ tasks'[i].pc = "stA_io"
        /\ (i <= Len(tasks) => tasks[i].pc \in {"lg_fetch", "ii_fetch"})
        /\ accessTokenMem' = tasks'[i].wa
        /\ refreshTokenMem' = tasks'[i].wr

\* The step is the assignment of getTokens after a read: one shadow takes the
\* value the read returned.
GetTokensLoadStep ==
    \E i \in Tasks :
        \/ /\ tasks[i].pc = "gtA_res" /\ tasks'[i].pc # "gtA_res"
           /\ accessTokenMem' = tasks[i].io
           /\ refreshTokenMem' = refreshTokenMem
        \/ /\ tasks[i].pc = "gtR_res" /\ tasks'[i].pc # "gtR_res"
           /\ refreshTokenMem' = tasks[i].io
           /\ accessTokenMem' = accessTokenMem

ShadowChanges ==
    accessTokenMem' # accessTokenMem \/ refreshTokenMem' # refreshTokenMem

\* C20 as stated: every step that changes the shadow is a setTokens step (so
\* getAccessToken and authFetch never change it).
C20_ShadowChangedOnlyBySetTokens ==
    [][ShadowChanges => SetTokensStep]_vars

\* C20 amended: every step that changes the shadow is either a setTokens step,
\* made by signIn, signUp, signOut or the refresh, or the assignment by which
\* getTokens (called by getAccessToken, authFetch and refreshAccessToken) gives a
\* shadow the value it read from the store; and only those four run setTokens.
C20_ShadowChangedBySetOrGetTokens ==
    [][/\ ShadowChanges => (SetTokensStep \/ GetTokensLoadStep)
       /\ \A i \in Tasks :
             tasks[i].pc \in {"stA_io", "stR_io", "st_ret"}
                => tasks[i].kind \in {"signIn", "signUp", "signOut", "refreshIIFE"}
      ]_vars

\* getAccessToken has returned the stored access credential, which its getTokens
\* (or the bootstrap's) loaded into the shadow.
C20_Witness ==
    \E i \in Tasks :
        /\ tasks[i].kind = "getAccessToken" /\ tasks[i].pc = "done"
        /\ tasks[i].ret = StoredAccess
        /\ accessTokenMem = StoredAccess

\* The refresh requests that are outstanding: sent and not yet answered.
Outstanding == {f \in Tasks : IsRefresh(tasks[f]) /\ tasks[f].pc = "ii_fetch"}

\* C25: at every step, at most one refresh request is outstanding; the in-flight
\* marker is not cleared or moved while the request it denotes is outstanding;
\* while a request is outstanding the marker denotes it; and a call that reaches
\* the test of the marker while a request is outstanding, holding a refresh
\* credential, joins that request and issues none.
C25_OneRefreshOutstanding ==
    [][/\ Cardinality(Outstanding) <= 1
       /\ Cardinality(Outstanding') <= 1
       /\ \A f \in Outstanding :
             /\ refreshInFlight = f
             /\ (tasks'[f].pc = "ii_fetch" => refreshInFlight' = f)
             /\ \A i \in Tasks :
                   (tasks[i].pc = "gt_ret" /\ tasks[i].ctx = "rf" /\ tasks[i].rt # Null
                      /\ tasks'[i] # tasks[i])
                   => /\ tasks'[i].pc = "rf_join" /\ tasks'[i].flight = f
                      /\ Len(tasks') = Len(tasks)
      ]_vars

\* Two calls await one outstanding refresh request: the one that started it and
\* one that joined it.
C25_Witness ==
    \E f \in Outstanding : \E i, j \in Tasks :
        /\ tasks[i].pc = "rf_await" /\ tasks[i].flight = f
        /\ tasks[j].pc = "rf_join" /\ tasks[j].flight = f
        /\ refreshInFlight = f

----------------------------------------------------------------------------
(***************************************************************************)
(* Properties of the event bus, checked under SpecBus.  They are stated of *)
(* the last emit, once it has returned (emitK = 0).                        *)
(***************************************************************************)
Count(seq, x) == Cardinality({k \in 1..Len(seq) : seq[k] = x})
InvokedCallbacks == [k \in 1..Len(invoked) |-> invoked[k].cb]
EmitReturned == emitK = 0

\* C8: when the callbacks of an emit only unsubscribe (none subscribes), every
\* callback registered when emit was called and not passed to off during the
\* emit has been invoked once per registration, and no callback has been invoked
\* more often than it was registered.
C8_UnsubscribeDuringDelivery ==
    (EmitReturned /\ onDuring = {}) =>
        \A cb \in Callbacks :
            /\ Count(InvokedCallbacks, cb) <= Count(snapshot, cb)
            /\ (cb \notin offDuring =>
                  Count(InvokedCallbacks, cb) = Count(snapshot, cb))

\* C9: an emit that has returned has invoked exactly the callbacks registered
\* when it was called, each once per registration, in registration order.
C9_DeliversSnapshotInOrder ==
    EmitReturned => InvokedCallbacks = snapshot

\* C10: in an emit that has returned, a callback registered once and never passed
\* to off since has been invoked exactly once, with the payload of the emit, and
\* a callback that was not registered when emit was called (it was unsubscribed
\* before, or never subscribed) and was not subscribed since has not been invoked.
C10_SubscribedOnceUnsubscribedNever ==
    EmitReturned =>
        \A cb \in Callbacks :
            /\ (Count(snapshot, cb) = 1 /\ cb \notin offDuring =>
                  /\ Count(InvokedCallbacks, cb) = 1
                  /\ \A k \in 1..Len(invoked) :
                        invoked[k].cb = cb => invoked[k].payload = payload)
            /\ (Count(snapshot, cb) = 0 /\ cb \notin onDuring =>
                  Count(InvokedCallbacks, cb) = 0)

\* The registrations of cb whose unsubscribe function was never called.
Live(cb) == {r \in 1..Len(regs) : regs[r] = cb /\ r \notin called}

\* C30: an unsubscribe function removes the registration it was returned for, and
\* nothing else however often it is called: each callback is on the list once for
\* every registration of it whose unsubscribe function was never called.
C30_UnsubscribeRemovesOnlyItsOwn ==
    \A cb \in Callbacks : Count(listeners, cb) = Cardinality(Live(cb))

----------------------------------------------------------------------------
(***************************************************************************)
(* Properties of the notes flows, checked under SpecNotes.                 *)
(***************************************************************************)
\* C11: at every emit that announces a deletion, the flashcards entry and the
\* quiz entry of the deleted note are absent from the artifact cache.
C11_ClearedBeforeAnnounced ==
    \A k \in 1..Len(published) :
        published[k].fc = Null /\ published[k].qz = Null

----------------------------------------------------------------------------
(***************************************************************************)
(* Properties of the credential store, checked under SpecStore.            *)
(***************************************************************************)
SameCall(c, d) == c.op = d.op /\ c.key = d.key /\ c.value = d.value
StoreCalls == 1..Len(scalls)

\* C21: on a non-web platform, for getItem, setItem and deleteItem alike: when
\* getSecureStore yields no module, or the secure operation raises (leaving the
\* secure store as it was), the call goes on to the same operation, with the same
\* key and value, on AsyncStorage; that operation, when it succeeds, takes effect
\* on AsyncStorage and its result is the call's; and the call ends with an error
\* only in the step where the AsyncStorage operation fails, after the secure path
\* was unavailable or raised.
C21_FallbackToGenericStore ==
    [][\A i \in StoreCalls :
          (platform # "web" /\ scalls'[i] # scalls[i]) =>
             LET c == scalls[i]
                 d == scalls'[i]
             IN /\ SameCall(c, d)
                /\ (c.pc = "gss" /\ ~d.avail => d.pc = "generic")
                /\ (c.pc = "secure" /\ d.raised
                      => d.pc = "generic" /\ secureStore' = secureStore)
                /\ (c.pc = "generic"
                      => /\ d.generic /\ d.pc = "done"
                         /\ (d.out = "ok"
                               => /\ asyncStorage' = Effect(c, asyncStorage)
                                  /\ d.result = Resolved(c, asyncStorage)))
                /\ (d.out = "error"
                      => /\ c.pc = "generic"
                         /\ (~c.avail \/ c.raised)
                         /\ asyncStorage' = asyncStorage)
      ]_vars

\* A setItem whose secure operation raised has completed on AsyncStorage.
C21_Witness ==
    /\ platform # "web"
    /\ \E i \in StoreCalls :
          LET c == scalls[i] IN
          /\ c.op = "setItem" /\ c.pc = "done" /\ c.out = "ok"
          /\ c.avail /\ c.raised /\ c.generic
          /\ asyncStorage[c.key] = c.value
          /\ secureStore[c.key] = Null

\* C29: on a non-web platform, whatever the availability of the secure store in
\* each call: a getItem that completes right after a completed setItem of the same
\* key (each call made when the calls before it had ended, and no call made
\* since) returns the value that was set, and a getItem that completes right
\* after a completed deleteItem of the same key returns null.
C29_RoundTripAcrossBackends ==
    [][\A i \in StoreCalls :
          (/\ platform # "web"
           /\ i >= 2 /\ i = Len(scalls)
           /\ scalls[i].alone /\ scalls[i - 1].alone
           /\ scalls[i].op = "getItem" /\ scalls[i].pc # "done"
           /\ scalls'[i].pc = "done" /\ scalls'[i].out = "ok"
           /\ scalls[i - 1].out = "ok" /\ scalls[i - 1].key = scalls[i].key)
          => /\ (scalls[i - 1].op = "setItem"
                   => scalls'[i].result = scalls[i - 1].value)
             /\ (scalls[i - 1].op = "deleteItem" => scalls'[i].result = Null)
      ]_vars

----------------------------------------------------------------------------
(***************************************************************************)
(* Properties of the artifact cache, checked under SpecCache.               *)
(***************************************************************************)
GetOps == {"getFlashcards", "getQuiz"}
SetOps == {"setFlashcards", "setQuiz"}
SetOf(op) == IF op = "getFlashcards" THEN "setFlashcards" ELSE "setQuiz"
KeyOf(op, n) == IF op \in {"getFlashcards", "setFlashcards"} THEN KEY_FC(n) ELSE KEY_QZ(n)
\* The step is a call of getFlashcards / getQuiz, of setFlashcards / setQuiz.
GetStep == ncalls' = ncalls + 1 /\ lastCall'.op \in GetOps
SetStep == ncalls' = ncalls + 1 /\ lastCall'.op \in SetOps

\* C22 as stated: a get that follows a set of the same kind and note id returns
\* the value that was set; a get on a key that holds nothing returns null; a get
\* on a key whose raw string is not parseable returns null.
C22_SetThenGet ==
    [][GetStep =>
          LET raw == asyncStorage[KeyOf(got'.op, got'.noteId)] IN
          /\ (lastCall.op = SetOf(got'.op) /\ lastCall.noteId = got'.noteId
                => got'.result = Just(lastCall.value))
          /\ (raw = Null => got'.result = Nothing)
          /\ (raw # Null /\ ~Parseable(raw) => got'.result = Nothing)
      ]_vars

\* C22 amended: a set whose write succeeded leaves the serialized value at the
\* key of its kind and note id, and a set whose write failed leaves the store as
\* it was (the failure is swallowed); a get that follows a set of the same kind
\* and note id returns the value that was set when that write and its own read
\* succeeded; a get returns null on a key that holds nothing, on a key whose raw
\* string is not parseable, and when its read fails.
C22_SetThenGetWhenStored ==
    [][/\ GetStep =>
          LET raw == asyncStorage[KeyOf(got'.op, got'.noteId)] IN
          /\ (lastCall.op = SetOf(got'.op) /\ lastCall.noteId = got'.noteId
                /\ lastCall.ok /\ got'.ok
                => got'.result = Just(lastCall.value))
          /\ (raw = Null => got'.result = Nothing)
          /\ (raw # Null /\ ~Parseable(raw) => got'.result = Nothing)
          /\ (~got'.ok => got'.result = Nothing)
          /\ asyncStorage' = asyncStorage
       /\ SetStep =>
          LET key == KeyOf(lastCall'.op, lastCall'.noteId) IN
          IF lastCall'.ok
          THEN asyncStorage' = [asyncStorage EXCEPT ![key] = Stringify(lastCall'.value)]
          ELSE asyncStorage' = asyncStorage
      ]_vars

\* A getQuiz has returned the two-item list a setQuiz stored for the same note,
\* at a key that held an unparseable string before.
C22_Witness ==
    /\ lastCall.op = "getQuiz" /\ got.op = "getQuiz" /\ got.ok
    /\ got.result = Just(<<"k1", "k2">>)
    /\ asyncStorage[KEY_QZ(got.noteId)] = Stringify(<<"k1", "k2">>)
    /\ asyncStorage[KEY_FC(got.noteId)] = Corrupt

\* The step is a call of clearNoteTools.
ClearStep == ncalls' = ncalls + 1 /\ lastCall'.op = "clearNoteTools"

\* C24 as stated: clearNoteTools(noteId) leaves the store with both entries of
\* that note removed and every other entry as it was; a set of one kind for a
\* note changes at most the entry of that kind and note.
C24_ClearRemovesBoth ==
    [][/\ ClearStep =>
            asyncStorage' = [asyncStorage EXCEPT ![KEY_FC(lastCall'.noteId)] = Null,
                                                 ![KEY_QZ(lastCall'.noteId)] = Null]
       /\ SetStep =>
            \A k \in StorageKeys \ {KeyOf(lastCall'.op, lastCall'.noteId)} :
                asyncStorage'[k] = asyncStorage[k]
      ]_vars

\* C24 amended: clearNoteTools(noteId), when its removal succeeds, leaves the
\* store with both entries of that note removed and every other entry as it was,
\* and when its removal fails it completes without an error and leaves every
\* entry as it was (never one of the two removed); a set of one kind for a note
\* changes at most the entry of that kind and note.
C24_ClearRemovesBothOrNothing ==
    [][/\ ClearStep =>
            IF lastCall'.ok
            THEN asyncStorage' = [asyncStorage EXCEPT ![KEY_FC(lastCall'.noteId)] = Null,
                                                      ![KEY_QZ(lastCall'.noteId)] = Null]
            ELSE asyncStorage' = asyncStorage
       /\ SetStep =>
            \A k \in StorageKeys \ {KeyOf(lastCall'.op, lastCall'.noteId)} :
                asyncStorage'[k] = asyncStorage[k]
      ]_vars

\* clearNoteTools has removed the entries of one note while the other note keeps
\* the quiz stored for it and its unparseable flashcards entry.
C24_Witness ==
    /\ lastCall.op = "clearNoteTools" /\ lastCall.ok
    /\ asyncStorage[KEY_FC(lastCall.noteId)] = Null
    /\ asyncStorage[KEY_QZ(lastCall.noteId)] = Null
    /\ \E n \in NoteIds \ {lastCall.noteId} :
          /\ asyncStorage[KEY_QZ(n)] = Stringify(<<"k1">>)
          /\ asyncStorage[KEY_FC(n)] = Corrupt

----------------------------------------------------------------------------
(***************************************************************************)
(* Properties of the tool screens, checked under SpecTools.                *)
(***************************************************************************)
Gens == 1..Len(gens)
\* The generation ended without a usable result: no note, a failed token read or
\* request, a non-success status, or no valid item.
GenFailed(g) == g.out \in {"no note", "error", "failed", "empty"}

\* C23: every step that changes an entry of the artifact cache is the cache write
\* of a generation for the note and kind of that entry, whose request returned a
\* success status and at least one valid item, and it writes the whole list of
\* valid items and changes no other entry; a step in which a generation ends
\* without a usable result leaves the cache as it was, and so does every step of
\* a generation up to its cache write.
C23_CachedOnlyAfterGeneration ==
    [][/\ \A k \in CacheKeys :
            asyncStorage'[k] # asyncStorage[k] =>
               \E i \in Gens :
                  LET g == gens[i] IN
                  /\ g.pc = "ft_cache" /\ gens'[i].pc = "done"
                  /\ g.noteId # Null /\ k = KeyFor(g.kind, g.noteId)
                  /\ ResOk(g.status) /\ Len(g.mapped) >= 1
                  /\ g.mapped = mapApi(g.raw)
                  /\ asyncStorage' = [asyncStorage EXCEPT ![k] = Stringify(g.mapped)]
       /\ \A i \in Gens :
            /\ (gens'[i] # gens[i] /\ GenFailed(gens'[i])
                  => asyncStorage' = asyncStorage /\ gens'[i].pc = "done")
            /\ (gens[i].pc = "ft_fetch" /\ gens'[i].pc = "ft_cache"
                  => /\ ResOk(gens'[i].status) /\ Len(gens'[i].mapped) >= 1
                     /\ asyncStorage' = asyncStorage)
            /\ (gens[i].pc = "ft_fetch" /\ gens'[i] # gens[i]
                  /\ (~ResOk(gens'[i].status) \/ Len(mapApi(gens'[i].raw)) = 0)
                  => GenFailed(gens'[i]))
      ]_vars

\* A generation answered 200 with two valid items and one invalid has written
\* the two valid items at a key that held an unparseable string or nothing.
C23_Witness ==
    \E i \in Gens :
        /\ gens[i].pc = "done" /\ gens[i].out = "ok" /\ gens[i].wrote
        /\ gens[i].status = 200 /\ gens[i].raw = <<"k1", "bad", "k2">>
        /\ asyncStorage[KeyFor(gens[i].kind, gens[i].noteId)] = Stringify(<<"k1", "k2">>)

----------------------------------------------------------------------------
(***************************************************************************)
(* Sign-out and sign-in against calls already under way, checked under     *)
(* Spec.                                                                   *)
(***************************************************************************)
\* The call is the last one made: every other call, and every refresh, was
\* started before it.
LastMade(i) == i = Len(tasks)

\* C27: once a signOut has completed, with no signIn or signUp made and every
\* other call (a refresh, a getAccessToken, an authFetch) started before the
\* signOut was, both credentials are absent from the shadow and from the store,
\* however those calls interleave with it.
C27_SignedOutStaysSignedOut ==
    \A i \in Tasks :
        (/\ tasks[i].kind = "signOut" /\ tasks[i].pc = "done" /\ tasks[i].out = "ok"
         /\ LastMade(i)
         /\ \A j \in Tasks : ~IsSign(tasks[j]))
        => /\ accessTokenMem = Null /\ refreshTokenMem = Null
           /\ Absent(ACCESS_KEY) /\ Absent(REFRESH_KEY)

\* C28: once a signIn or signUp has resolved successfully, with no signOut made
\* and every other call (the bootstrap, a refreshProfile) started before the
\* sign-in was, user is not null, also after such a call has failed.
C28_SignedInStaysSignedIn ==
    \A i \in Tasks :
        (/\ IsSign(tasks[i]) /\ tasks[i].pc = "done" /\ tasks[i].out = "ok"
         /\ LastMade(i)
         /\ \A j \in Tasks : tasks[j].kind # "signOut")
        => user # Null

----------------------------------------------------------------------------
(***************************************************************************)
(* Properties of the indexing flows, checked under SpecIndex.              *)
(***************************************************************************)
IndexFailed(t) == t.out \in {"failed", "error", "no token"}

\* C26: when an indexing publishes notes:changed with a note id, the last-indexed
\* pointer holds that id, and a subscriber that reads the pointer in response
\* reads that id; an indexing that failed has written no pointer and has
\* published no event.
C26_PointerPersistedBeforeEvent ==
    /\ \A k \in 1..Len(announced) :
          /\ announced[k].pointer = announced[k].noteId
          /\ announced[k].seen \in {"unread", announced[k].noteId}
    /\ \A i \in 1..Len(itasks) :
          IndexFailed(itasks[i]) =>
             /\ ~itasks[i].wrote
             /\ \A k \in 1..Len(announced) : announced[k].by # i

====
